---- MODULE Spec2Model ----
(***************************************************************************)
(* A state-machine model of RasterliteCreateCopy                           *)
(* (frmts/rasterlite/rasterlitecreatecopy.cpp): the tile store of one      *)
(* table prefix T, the schema stage, the tile loop and its transaction.    *)
(* World coordinates and pixel sizes are modelled by integers; a tile blob *)
(* is modelled by the pixel window it encodes.                             *)
(***************************************************************************)
EXTENDS Integers, Sequences, FiniteSets, TLC

(* ------------------------------ bounds --------------------------------- *)
\* Largest raster width / height a call is given.
MaxXSize == 600
MaxYSize == 600
\* A new call starts only while fewer than MaxSeq raster ids were ever issued.
MaxSeq == 3
\* Largest number of comma-separated tokens of a target string.
MaxTokens == 3

(* ------------------------- program constants --------------------------- *)
MinBlockSize == 64
MaxBlockSize == 4096
DefaultBlockSize == 256
NoSRID == -1
OGRNullFID == -1

\* The values of the CPLErr enumeration.
CPLErr == {"CE_None", "CE_Debug", "CE_Warning", "CE_Failure", "CE_Fatal"}

(* ------------------------------ inputs --------------------------------- *)
\* The text of an option is a sequence of pieces: a run of digits (with its
\* value), a minus sign, a run of other characters, or a run of digits whose
\* value no int holds. The conversion of such a run is undefined: the piece
\* carries the int this build's atoi() makes of it.
Digits(n) == [k |-> "digits", n |-> n]
Minus == [k |-> "minus", n |-> 0]
Letters == [k |-> "letters", n |-> 0]
HugeDigits(asInt) == [k |-> "huge", n |-> asInt]
\* "3000000000" where atoi() wraps, and where it saturates.
WrappedHuge == HugeDigits(-1294967296)
SaturatedHuge == HugeDigits(2147483647)

\* An option of the papszOptions list: absent, or present with a text.
NoOpt == [set |-> FALSE, text |-> <<>>]
OptText(t) == [set |-> TRUE, text |-> t]
OptNum(n) == OptText(IF n < 0 THEN <<Minus, Digits(-n)>> ELSE <<Digits(n)>>)

\* Geotransforms handed back by the source: none (GetGeoTransform fails), a
\* north-up one, and one with a rotation term.
NoGT == [ok |-> FALSE, c |-> [i \in 0..5 |-> 0]]
MkGT(x0, px, rx, y0, ry, py) ==
    [ok |-> TRUE,
     c |-> [i \in 0..5 |-> CASE i = 0 -> x0 [] i = 1 -> px [] i = 2 -> rx
                             [] i = 3 -> y0 [] i = 4 -> ry [] OTHER -> py]]
NorthUpGT == MkGT(10, 2, 0, 20, 0, -3)
SouthUpGT == MkGT(-5, 3, 0, -7, 0, 2)
RotatedGT == MkGT(0, 1, 1, 0, 0, -1)

\* The source's projection text: absent, empty, one OSRNewSpatialReference()
\* refuses, or a definition with the authority name and code it carries.
NoSRS == [wkt |-> "null", name |-> "", code |-> 0]
EmptySRS == [wkt |-> "empty", name |-> "", code |-> 0]
MalformedSRS == [wkt |-> "malformed", name |-> "EPSG", code |-> 4326]
Epsg4326 == [wkt |-> "valid", name |-> "EPSG", code |-> 4326]
\* An authority code the registry of a new store does not hold, a definition
\* without authority, a code without an authority name, and an authority name
\* with the code 0.
Esri102100 == [wkt |-> "valid", name |-> "ESRI", code |-> 102100]
LocalSRS == [wkt |-> "valid", name |-> "", code |-> 0]
UnnamedCode == [wkt |-> "valid", name |-> "", code |-> 4326]
ZeroCode == [wkt |-> "valid", name |-> "EPSG", code |-> 0]

\* A target string is an optional RASTERLITE: prefix and the tokens
\* CSLTokenizeStringComplex() cuts the rest into at its commas; a token is a
\* sequence of pieces of text.
StorePath == <<"T", ".sqlite">>
DirStorePath == <<"d/", "U", ".sqlite">>
TableT == <<"table=", "T">>
TableU == <<"table=", "U">>
TableEmpty == <<"table=">>
OtherOption == <<"wipe=", "yes">>
TokenKinds == {StorePath, DirStorePath, TableT, TableU, TableEmpty, OtherOption}
Target(bPrefix, toks) == [prefix |-> bPrefix, tokens |-> toks]
TokenSeqs(n) == UNION {[1..k -> TokenKinds] : k \in 0..n}
AllTargets == {Target(b, t) : b \in BOOLEAN, t \in TokenSeqs(MaxTokens)}
\* An option of papszOptions as CSLFetchNameValue sees it: absent, or its value.
NoValue == [set |-> FALSE, value |-> ""]
Value(v) == [set |-> TRUE, value |-> v]
\* The DRIVER, QUALITY, COMPRESS and PHOTOMETRIC options of a call.
EncodingOptions(drvs, quals, comps, phots) ==
    [DRIVER : drvs, QUALITY : quals, COMPRESS : comps, PHOTOMETRIC : phots]
\* No encoding option but DRIVER, over the tile drivers the entry checks tell
\* apart.
PlainOptions ==
    EncodingOptions({NoValue, Value("MEM"), Value("VRT")}, {NoValue}, {NoValue},
                    {NoValue})
\* Every combination of the encoding options over four codec families.
AllEncodingOptions ==
    EncodingOptions({NoValue, Value("GTiff"), Value("JPEG"), Value("WEBP"),
                     Value("PNG"), Value("MEM")},
                    {NoValue, Value("75"), Value("")}, {NoValue, Value("LZW")},
                    {NoValue, Value("YCBCR")})

\* "T.sqlite" and "T.sqlite,table=T": the store and the tables the model follows.
PlainTargets == {Target(FALSE, <<StorePath>>), Target(FALSE, <<StorePath, TableT>>)}

\* What the callers of a run hand in: successive ingestions of small rasters
\* into one store, and ingestions of rasters of many sizes into an empty one.
SeqEnv ==
    [xs |-> {1, 65}, ys |-> {1},
     gts |-> {NorthUpGT, RotatedGT},
     bxopts |-> {NoOpt, OptNum(0)}, byopts |-> {NoOpt},
     srs |-> {NoSRS, Epsg4326},
     targets |-> PlainTargets, statsOk |-> {TRUE},
     options |-> PlainOptions,
     maxSeq |-> MaxSeq]
TilingEnv ==
    [xs |-> {1, 64, 65, MaxXSize}, ys |-> {1, MaxYSize},
     gts |-> {NoGT, NorthUpGT, SouthUpGT, RotatedGT},
     bxopts |-> {NoOpt, OptNum(0), OptNum(5000)},
     byopts |-> {NoOpt, OptNum(0)},
     srs |-> {NoSRS},
     targets |-> {Target(FALSE, <<StorePath, TableT>>)}, statsOk |-> {TRUE},
     options |-> PlainOptions,
     maxSeq |-> 1]
\* Ingestions of a one-pixel raster under every target string.
TargetEnv ==
    [xs |-> {1}, ys |-> {1},
     gts |-> {NorthUpGT},
     bxopts |-> {NoOpt}, byopts |-> {NoOpt},
     srs |-> {NoSRS},
     targets |-> AllTargets, statsOk |-> {TRUE},
     options |-> PlainOptions,
     maxSeq |-> 1]
\* Ingestions of small rasters under many BLOCKXSIZE / BLOCKYSIZE texts.
OptionsEnv ==
    [xs |-> {1, 65}, ys |-> {1},
     gts |-> {NorthUpGT},
     bxopts |-> {NoOpt, OptNum(0), OptNum(-5), OptNum(63), OptNum(64), OptNum(65),
                 OptNum(4096), OptNum(4097), OptText(<<>>), OptText(<<Letters>>),
                 OptText(<<Digits(100), Letters>>), OptText(<<WrappedHuge>>),
                 OptText(<<SaturatedHuge>>)},
     byopts |-> {NoOpt, OptNum(-5), OptNum(4097), OptText(<<Letters>>)},
     srs |-> {NoSRS},
     targets |-> {Target(FALSE, <<StorePath, TableT>>)}, statsOk |-> {TRUE},
     options |-> PlainOptions,
     maxSeq |-> 1]
\* Ingestions of a one-pixel raster under every projection, the statistics
\* refresh failing or not.
SchemaEnv ==
    [xs |-> {1}, ys |-> {1},
     gts |-> {NorthUpGT},
     bxopts |-> {NoOpt}, byopts |-> {NoOpt},
     srs |-> {NoSRS, EmptySRS, MalformedSRS, Epsg4326, Esri102100, LocalSRS,
              UnnamedCode, ZeroCode},
     targets |-> {Target(FALSE, <<StorePath, TableT>>)}, statsOk |-> BOOLEAN,
     options |-> PlainOptions,
     maxSeq |-> 1]

\* Ingestions of a one-pixel raster under every combination of the encoding
\* options.
CodecEnv ==
    [xs |-> {1}, ys |-> {1},
     gts |-> {NorthUpGT},
     bxopts |-> {NoOpt}, byopts |-> {NoOpt},
     srs |-> {NoSRS},
     targets |-> {Target(FALSE, <<StorePath, TableT>>)}, statsOk |-> {TRUE},
     options |-> AllEncodingOptions,
     maxSeq |-> 1]

\* The rows spatial_ref_sys holds in a store created with SPATIALITE=YES.
InitialRegistry == {[srid |-> 4326, auth_srid |-> 4326]}

(* ------------------------- pure helper code ---------------------------- *)
\* atoi(): the value of the leading optionally signed digits, 0 without them.
Atoi(text) ==
    IF text = <<>> THEN 0
    ELSE IF text[1].k \in {"digits", "huge"} THEN text[1].n
    ELSE IF text[1].k = "minus" /\ Len(text) > 1 /\ text[2].k = "digits"
    THEN -text[2].n
    ELSE 0

\* atoi(CSLFetchNameValueDef(papszOptions, key, "256"))
BlockSizeOption(opt) ==
    Atoi(IF opt.set THEN opt.text ELSE <<Digits(DefaultBlockSize)>>)

ClampBlockSizeFromBelow(n) == IF n < MinBlockSize THEN MinBlockSize ELSE n
ClampBlockSize(n) ==
    IF n < MinBlockSize THEN MinBlockSize
    ELSE IF n > MaxBlockSize THEN MaxBlockSize ELSE n

\* nBlockXSize / nBlockYSize as the code chooses them.
EffBlockSizeTiledAlways(bTiled, opt, nSize) == ClampBlockSize(BlockSizeOption(opt))
EffBlockSize(bTiled, opt, nSize) ==
    IF bTiled THEN ClampBlockSize(BlockSizeOption(opt)) ELSE nSize

\* The substituted identity transform.
IdentityGT == [i \in 0..5 |-> CASE i = 1 -> 1 [] i = 5 -> -1 [] OTHER -> 0]
EffGeoTransform(gt) == IF gt.ok THEN gt.c ELSE IdentityGT
HasRotation(gt) == gt.ok /\ (gt.c[2] # 0 \/ gt.c[4] # 0)

\* EQUAL(pszDriverName, "MEM") || EQUAL(pszDriverName, "VRT")
\* CSLFetchNameValueDef(papszOptions, "DRIVER", "GTiff").
DriverName(opt) == IF opt.set THEN opt.value ELSE "GTiff"

\* CSLSetNameValue on a list of name, value pairs.
CSLSetNameValue(list, name, value) ==
    {p \in list : p[1] # name} \cup {<<name, value>>}

\* RasterliteAddTileDriverOptionsForDriver: acc is the list built so far and the
\* options warned about.
AddTileDriverOptionsAnyDriver(papszOptions, acc, pszOptionName, pszExpectedDriverName) ==
    IF ~papszOptions[pszOptionName].set THEN acc
    ELSE [acc EXCEPT !.list = CSLSetNameValue(@, pszOptionName,
                                  papszOptions[pszOptionName].value)]
AddTileDriverOptionsForDriver(papszOptions, acc, pszOptionName, pszExpectedDriverName) ==
    IF ~papszOptions[pszOptionName].set THEN acc
    ELSE IF DriverName(papszOptions.DRIVER) = pszExpectedDriverName
    THEN [acc EXCEPT !.list = CSLSetNameValue(@, pszOptionName,
                                  papszOptions[pszOptionName].value)]
    ELSE [acc EXCEPT !.warned = @ \cup {pszOptionName}]

\* RasterliteGetTileDriverOptions.
GetTileDriverOptions(papszOptions) ==
    LET pszDriverName == DriverName(papszOptions.DRIVER)
        pszQuality == papszOptions.QUALITY
        none == [list |-> {}, warned |-> {}]
        q == IF ~pszQuality.set THEN none
             ELSE IF pszDriverName = "GTiff"
             THEN [none EXCEPT !.list = CSLSetNameValue(@, "JPEG_QUALITY",
                                            pszQuality.value)]
             ELSE IF pszDriverName = "JPEG" \/ pszDriverName = "WEBP"
             THEN [none EXCEPT !.list = CSLSetNameValue(@, "QUALITY",
                                            pszQuality.value)]
             ELSE [none EXCEPT !.warned = @ \cup {"QUALITY"}]
        c == AddTileDriverOptionsForDriver(papszOptions, q, "COMPRESS", "GTiff")
    IN AddTileDriverOptionsForDriver(papszOptions, c, "PHOTOMETRIC", "GTiff")

\* The warning of the overlap check.
OverlapWarningAlways(nOverlappingGeoms) == {"Raster tiles already exist"}
OverlapWarning(nOverlappingGeoms) ==
    IF nOverlappingGeoms # 0 THEN {"Raster tiles already exist"} ELSE {}

\* The tests of the two for-loops over the blocks.
LoopContinuesAlways(e, nBlockOff, nBlockCount) == nBlockOff < nBlockCount
LoopContinues(e, nBlockOff, nBlockCount) ==
    nBlockOff < nBlockCount /\ e = "CE_None"

\* VSIUnlink of the temporary file: whether the file exists afterwards.
KeepTempFile(bExists) == bExists
VSIUnlink(bExists) == FALSE

RefusedTileDriverMemOnly(drv) == drv = "MEM"
RefusedTileDriver(drv) == drv \in {"MEM", "VRT"}

\* The target string: STARTS_WITH_CI(token, "table="), the text after it, the
\* table name the token loop leaves (the last table= token's), the tokens that
\* are warned about, and CPLGetBasenameSafe().
StartsWithTable(tok) == Len(tok) > 0 /\ tok[1] = "table="
RECURSIVE TableNameFirstWins(_, _, _)
TableNameFirstWins(tokens, i, name) ==
    IF i > Len(tokens) THEN name
    ELSE TableNameFirstWins(tokens, i + 1,
             IF StartsWithTable(tokens[i]) /\ name = <<>>
             THEN Tail(tokens[i]) ELSE name)
RECURSIVE TableNameFrom(_, _, _)
TableNameFrom(tokens, i, name) ==
    IF i > Len(tokens) THEN name
    ELSE TableNameFrom(tokens, i + 1,
             IF StartsWithTable(tokens[i]) THEN Tail(tokens[i]) ELSE name)
InvalidOptions(tokens) == {i \in 2..Len(tokens) : ~StartsWithTable(tokens[i])}
IsDir(piece) == piece = "d/"
IsExtension(piece) == piece = ".sqlite"
Basename(path) ==
    LET dirs == {i \in 1..Len(path) : IsDir(path[i])}
        from == IF dirs = {} THEN 1 ELSE (CHOOSE i \in dirs : \A j \in dirs : j <= i) + 1
        exts == {i \in from..Len(path) : IsExtension(path[i])}
        to == IF exts = {} THEN Len(path)
              ELSE (CHOOSE i \in exts : \A j \in exts : j <= i) - 1
    IN SubSeq(path, from, to)
\* osDBName and osTableName before the VSIStat() test.
TargetDBName(target) ==
    IF Len(target.tokens) = 0 THEN <<>> ELSE target.tokens[1]
TargetTableName(target) ==
    IF Len(target.tokens) = 0 THEN Basename(<<>>)
    ELSE TableNameFrom(target.tokens, 2, <<>>)

\* The tables the two CREATE TABLEs, AddGeometryColumn and CreateSpatialIndex
\* leave behind.
SchemaDroppedOnFailure(bAddOk, bIdxOk) ==
    IF bAddOk /\ bIdxOk THEN "indexed" ELSE "absent"
SchemaAfterCreate(bAddOk, bIdxOk) ==
    IF ~bAddOk THEN "tables" ELSE IF ~bIdxOk THEN "geomcol" ELSE "indexed"

NumBlocksOff(nSize, nBlockSize) == nSize \div nBlockSize
NumBlocks(nSize, nBlockSize) == (nSize + nBlockSize - 1) \div nBlockSize

ReqSizeRemainder(nBlockOff, nBlockSize, nSize) == nSize - nBlockOff * nBlockSize
ReqSizeUnclipped(nBlockOff, nBlockSize, nSize) == nBlockSize
ReqSize(nBlockOff, nBlockSize, nSize) ==
    IF (nBlockOff + 1) * nBlockSize > nSize
    THEN nSize - nBlockOff * nBlockSize
    ELSE nBlockSize

TileRectFromOrigin(g, bxs, bys, xoff, yoff, rx, ry) ==
    [minx |-> g[0] + (bxs * xoff) * g[1],
     maxx |-> g[0] + rx * g[1],
     maxy |-> g[3] + (bys * yoff) * g[5],
     miny |-> g[3] + ry * g[5]]
TileRect(g, bxs, bys, xoff, yoff, rx, ry) ==
    [minx |-> g[0] + (bxs * xoff) * g[1],
     maxx |-> g[0] + (bxs * xoff + rx) * g[1],
     maxy |-> g[3] + (bys * yoff) * g[5],
     miny |-> g[3] + (bys * yoff + ry) * g[5]]

MetadataRowIdFromTile(id, tile, rx, ry, g, rect) ==
    [id |-> tile, tile_id |-> tile, width |-> rx, height |-> ry,
     pixel_x_size |-> g[1], pixel_y_size |-> -g[5],
     minx |-> rect.minx, miny |-> rect.miny,
     maxx |-> rect.maxx, maxy |-> rect.maxy]
MetadataRow(id, tile, rx, ry, g, rect) ==
    [id |-> id, tile_id |-> tile, width |-> rx, height |-> ry,
     pixel_x_size |-> g[1], pixel_y_size |-> -g[5],
     minx |-> rect.minx, miny |-> rect.miny,
     maxx |-> rect.maxx, maxy |-> rect.maxy]

\* The end of the transaction and the value handed back to the caller.
TxEndOnFailureOnly(e) == IF e = "CE_Failure" THEN "ROLLBACK" ELSE "COMMIT"
TxEnd(e) == IF e = "CE_None" THEN "COMMIT" ELSE "ROLLBACK"
ReturnValue(e) == IF e = "CE_Failure" THEN "null" ELSE "dataset"

\* DELETE FROM "T_rasters" / DELETE FROM "T_metadata"
KeepRows(rows) == rows
DeleteFromRasters(rows) == <<>>
DeleteFromMetadata(rows) == <<>>

\* The srid the geometry_columns query yields: -1 when it has no row for T.
ExistingSRID(sch, bound) ==
    IF sch \in {"geomcol", "indexed"} THEN bound ELSE NoSRID

\* nExistingSRID != nSRSId
SRIDConflictNever(nExistingSRID, nSRSId) == FALSE
SRIDConflict(nExistingSRID, nSRSId) == nExistingSRID # nSRSId

\* CPLTestBool(CSLFetchNameValueDef(papszOptions, "WIPE", "NO"))
WipeAlways(optWipe) == TRUE
WipeNever(optWipe) == FALSE
WipeExistingData(optWipe) == optWipe

\* eErr after the progress callback answered bContinue.
AfterProgressIgnored(e, bContinue) == e
AfterProgress(e, bContinue) == IF ~bContinue THEN "CE_Failure" ELSE e

\* RasterliteInsertSRID: the srid resolved for the source's projection and the
\* registry it leaves. bNullOnEmpty: the store answers a SELECT without rows by
\* a null layer (otherwise by an empty one).
\* osAuthorityName and nAuthorityCode as RasterliteInsertSRID reads them from
\* the projection text.
Authority(wkt) ==
    IF wkt.wkt = "valid" THEN [name |-> wkt.name, code |-> wkt.code]
    ELSE [name |-> "", code |-> 0]

InsertSRIDAlways(rows, pszWKT, bNullOnEmpty) ==
    LET srs == Authority(pszWKT)
    IN [srid |-> IF srs.code # 0 /\ srs.name # "" THEN srs.code ELSE NoSRID,
        rows |-> rows \cup {[srid |-> srs.code, auth_srid |-> srs.code]}]
InsertSRID(rows, pszWKT, bNullOnEmpty) ==
    LET srs == Authority(pszWKT) IN
    IF srs.code # 0 /\ srs.name # ""
    THEN LET hits == {r \in rows : r.auth_srid = srs.code}
         IN IF hits = {}
            THEN IF bNullOnEmpty
                 THEN [srid |-> srs.code,
                       rows |-> rows \cup {[srid |-> srs.code, auth_srid |-> srs.code]}]
                 ELSE [srid |-> NoSRID, rows |-> rows]
            ELSE [srid |-> (CHOOSE r \in hits : TRUE).srid, rows |-> rows]
    ELSE [srid |-> NoSRID, rows |-> rows]

\* The overlap query: rows of the indexed metadata table whose rectangle meets
\* the new extent and whose pixel size is the new one.
Lo(a, b) == IF a < b THEN a ELSE b
Hi(a, b) == IF a < b THEN b ELSE a
OverlapCount(sch, rows, g, nXSize, nYSize) ==
    IF sch # "indexed" THEN 0
    ELSE LET minx == g[0]
             maxx == g[0] + nXSize * g[1]
             maxy == g[3]
             miny == g[3] + nYSize * g[5]
         IN Cardinality({i \in 1..Len(rows) :
               /\ Lo(rows[i].minx, rows[i].maxx) <= Hi(minx, maxx)
               /\ Hi(rows[i].minx, rows[i].maxx) >= Lo(minx, maxx)
               /\ Lo(rows[i].miny, rows[i].maxy) <= Hi(miny, maxy)
               /\ Hi(rows[i].miny, rows[i].maxy) >= Lo(miny, maxy)
               /\ rows[i].pixel_x_size = g[1]
               /\ rows[i].pixel_y_size = -g[5]})

(* ------------------ the GPSBabel data source: inputs ------------------- *)
\* Driver names are sequences of ASCII codes, of at most MaxNameLen characters
\* out of 'A', 'z', '9', ',' and ';'.
MaxNameLen == 2
NameChars == {65, 122, 57, 44, 59}
Names(n) == UNION {[1..k -> NameChars] : k \in 0..n}

\* A char* that holds a driver name, or nullptr.
Null == [null |-> TRUE, s |-> <<>>]
Str(s) == [null |-> FALSE, s |-> s]
\* A char* that holds a file name, or nullptr: what the name starts with, and
\* the pieces of the text after it, as atoi() reads them.
FileNull == [null |-> TRUE, head |-> "", rest |-> <<>>]
File(head, rest) == [null |-> FALSE, head |-> head, rest |-> rest]
\* "-": the converter reads its standard input.
Stdin == File("-", <<>>)
\* "track.gpx", "/dev/ttyS0", "usb:", "COM1", "COM0", "COMPASS.gpx", "COM-1".
PlainFile == File("", <<Letters>>)
Files ==
    {PlainFile, File("/dev/", <<Letters>>), File("usb:", <<>>),
     File("COM", <<Digits(1)>>), File("COM", <<Digits(0)>>),
     File("COM", <<Letters>>), File("COM", <<Minus, Digits(1)>>)}

\* The parts of a data source name between its ':' separators.
NameSeg(s) == [kind |-> "name", name |-> s, tokens |-> <<>>, file |-> FileNull]
FeaturesSeg(t) == [kind |-> "features", name |-> <<>>, tokens |-> t, file |-> FileNull]
FileSeg(f) == [kind |-> "file", name |-> <<>>, tokens |-> <<>>, file |-> f]
FeatureLists ==
    {<<>>, <<"waypoints">>, <<"tracks", "routes">>, <<"waypoints", "speed">>}
\* A file name, or GPSBABEL: followed by nothing, a driver name, a driver name
\* and a file name, or a driver name, features= and possibly a file name.
DatasourceName(bPrefix, segs) == [prefix |-> bPrefix, segs |-> segs]
PlainNames == {DatasourceName(FALSE, <<FileSeg(f)>>) : f \in Files}
PrefixedNames ==
    {DatasourceName(TRUE, <<>>)}
    \cup {DatasourceName(TRUE, <<NameSeg(s)>>) : s \in Names(MaxNameLen)}
    \cup {DatasourceName(TRUE, <<NameSeg(s), FileSeg(f)>>) :
             s \in Names(MaxNameLen), f \in Files}
    \cup {DatasourceName(TRUE, <<NameSeg(s), FeaturesSeg(t)>>) :
             s \in Names(MaxNameLen), t \in FeatureLists}
    \cup {DatasourceName(TRUE, <<NameSeg(s), FeaturesSeg(t), FileSeg(f)>>) :
             s \in Names(MaxNameLen), t \in FeatureLists, f \in Files}
\* The open options FILENAME, GPSBABEL_DRIVER and DRIVER.
NoOpenOptions == [FILENAME |-> FileNull, GPSBABEL_DRIVER |-> Null, DRIVER |-> Null]
OpenOptions ==
    [FILENAME : {FileNull, PlainFile},
     GPSBABEL_DRIVER : {Null, Str(<<65>>), Str(<<59>>)},
     DRIVER : {Null, Str(<<65>>), Str(<<57>>), Str(<<59>>)}]
\* The arguments of Open: a plain file name with the name of a driver; a
\* GPSBABEL: name, with or without the FILENAME option; and two GPSBABEL: names
\* under every combination of the open options.
OpenArguments ==
    [pszDatasourceName : PlainNames,
     pszGPSBabelDriverNameIn : {Str(s) : s \in Names(MaxNameLen)},
     papszOpenOptionsIn : {NoOpenOptions}]
    \cup [pszDatasourceName : PrefixedNames, pszGPSBabelDriverNameIn : {Null},
          papszOpenOptionsIn :
              {[NoOpenOptions EXCEPT !.FILENAME = f] : f \in {FileNull, PlainFile}}]
    \cup [pszDatasourceName :
              {DatasourceName(TRUE, <<>>),
               DatasourceName(TRUE, <<NameSeg(<<122>>), FileSeg(File("usb:", <<>>))>>)},
          pszGPSBabelDriverNameIn : {Null},
          papszOpenOptionsIn : OpenOptions]
\* Opens that differ in the features asked for: a plain file, and GPSBABEL:
\* names with every list of feature kinds.
LayerArguments ==
    {[pszDatasourceName |-> DatasourceName(FALSE, <<FileSeg(PlainFile)>>),
      pszGPSBabelDriverNameIn |-> Str(<<65>>),
      papszOpenOptionsIn |-> NoOpenOptions]}
    \cup [pszDatasourceName :
              {DatasourceName(TRUE, <<NameSeg(<<65>>), FeaturesSeg(t), FileSeg(f)>>) :
                  t \in {<<>>, <<"waypoints">>, <<"routes">>, <<"tracks">>,
                         <<"tracks", "routes">>, <<"waypoints", "routes">>,
                         <<"tracks", "waypoints">>,
                         <<"waypoints", "tracks", "routes">>},
                  f \in {PlainFile, File("usb:", <<>>)}},
          pszGPSBabelDriverNameIn : {Null},
          papszOpenOptionsIn : {NoOpenOptions}]
NoArguments ==
    [pszDatasourceName |-> DatasourceName(FALSE, <<>>), pszGPSBabelDriverNameIn |-> Null,
     papszOpenOptionsIn |-> NoOpenOptions]

(* ----------------- the GPSBabel data source: helpers ------------------- *)
\* CPLStrdup: a copy, of the empty string for nullptr.
CPLStrdup(p) == IF p.null THEN Str(<<>>) ELSE p

\* GetArgv: the feature flags, the driver after -i and the input after -f.
GetArgv(bExplicitFeatures, bWaypoints, bRoutes, bTracks, pszDriver, pszFile) ==
    [flags |-> IF bExplicitFeatures
               THEN (IF bWaypoints THEN <<"-w">> ELSE <<>>)
                    \o (IF bRoutes THEN <<"-r">> ELSE <<>>)
                    \o (IF bTracks THEN <<"-t">> ELSE <<>>)
               ELSE <<>>,
     driver |-> pszDriver,
     input |-> pszFile]

IsSpecialFile(pszFile) ==
    \/ pszFile.head = "/dev/"
    \/ pszFile.head = "usb:"
    \/ (pszFile.head = "COM" /\ Atoi(pszFile.rest) > 0)

IsValidChar(ch) ==
    \/ (ch >= 65 /\ ch <= 90)
    \/ (ch >= 97 /\ ch <= 122)
    \/ (ch >= 48 /\ ch <= 57)
    \/ ch = 95 \/ ch = 61 \/ ch = 46 \/ ch = 44
IsValidDriverName(s) == \A i \in 1..Len(s) : IsValidChar(s[i])

\* The features= list: the kinds asked for, and whether a token is none of them.
ParseFeatures(tokens) ==
    [bErr |-> \E i \in 1..Len(tokens) :
                 tokens[i] \notin {"waypoints", "tracks", "routes"},
     bWaypoints |-> \E i \in 1..Len(tokens) : tokens[i] = "waypoints",
     bTracks |-> \E i \in 1..Len(tokens) : tokens[i] = "tracks",
     bRoutes |-> \E i \in 1..Len(tokens) : tokens[i] = "routes"]

AllFeatures == [bExplicit |-> FALSE, bWaypoints |-> TRUE, bTracks |-> TRUE, bRoutes |-> TRUE]
Refused(err, drv, file) ==
    [err |-> err, driver |-> drv, file |-> file, features |-> AllFeatures]
Accepted(drv, file, features) ==
    [err |-> "", driver |-> drv, file |-> file, features |-> features]

\* The first part of Open: the driver name, the file name and the features out
\* of the data source name, the driver-name argument and the open options.
ParseName(segs, file) ==
    IF Len(segs) < 2
    THEN Refused("Wrong syntax. Expected GPSBabel:driver_name:file_name", Null, file)
    ELSE IF ~IsValidDriverName(segs[1].name)
    THEN Refused("Invalid GPSBabel driver name", Str(segs[1].name), file)
    ELSE IF segs[2].kind = "features"
    THEN IF Len(segs) < 3
         THEN Refused("Wrong syntax. Expected features=", Str(segs[1].name), file)
         ELSE LET f == ParseFeatures(segs[2].tokens)
              IN IF f.bErr
                 THEN Refused("Wrong value for 'features' options",
                              Str(segs[1].name), file)
                 ELSE Accepted(Str(segs[1].name),
                               IF file.null THEN segs[3].file ELSE file,
                               [bExplicit |-> TRUE, bWaypoints |-> f.bWaypoints,
                                bTracks |-> f.bTracks, bRoutes |-> f.bRoutes])
    ELSE Accepted(Str(segs[1].name), IF file.null THEN segs[2].file ELSE file,
                  AllFeatures)
ParseOpen(a) ==
    IF ~a.pszDatasourceName.prefix
    THEN Accepted(CPLStrdup(a.pszGPSBabelDriverNameIn),
                  a.pszDatasourceName.segs[1].file, AllFeatures)
    ELSE LET file == a.papszOpenOptionsIn.FILENAME IN
         IF ~a.papszOpenOptionsIn.GPSBABEL_DRIVER.null
         THEN IF file.null
              THEN Refused("Missing FILENAME", Null, file)
              ELSE LET drv == CPLStrdup(a.papszOpenOptionsIn.DRIVER)
                   IN IF ~IsValidDriverName(drv.s)
                      THEN Refused("Invalid GPSBabel driver name", drv, file)
                      ELSE Accepted(drv, file, AllFeatures)
         ELSE ParseName(a.pszDatasourceName.segs, file)

\* The retry without a pipe: only after the message of a failed piped spawn
\* names the piped commands.
RetryOnAnyFailure(outcome) == outcome # "ok"
RetryUnpiped(outcome) == outcome = "piped"

\* The layers of the GPX output registered: enabled, present and not empty.
LayerNames == <<"waypoints", "routes", "route_points", "tracks", "track_points">>
LayerEnabled(name, f) ==
    CASE name = "waypoints" -> f.bWaypoints
      [] name \in {"routes", "route_points"} -> f.bRoutes
      [] OTHER -> f.bTracks
RegisterNonEmptyLayers(f, nonEmpty) ==
    SelectSeq(LayerNames, LAMBDA n : n \in nonEmpty)
RegisterLayers(f, nonEmpty) ==
    SelectSeq(LayerNames, LAMBDA n : LayerEnabled(n, f) /\ n \in nonEmpty)

(* ------------------------------- state --------------------------------- *)
VARIABLES
    env,          \* "seq" | "tiling" | "target" | "options" | "schema" | "codec" |
                  \* "layers": which inputs the callers draw from
    dbExists,     \* the store file exists
    srsRows,      \* rows of spatial_ref_sys
    schema,       \* "absent" | "tables" | "geomcol" | "indexed" for prefix T
    geomSRID,     \* srid of T_metadata's row in geometry_columns
    rasters,      \* rows of T_rasters, in insertion order
    metadata,     \* rows of T_metadata, in insertion order
    seq,          \* sqlite_sequence of T_rasters: the largest id ever issued
    txSnap,       \* inside a transaction: the state ROLLBACK restores
    pc,           \* position of the call in RasterliteCreateCopy
    args,         \* the call's locals fixed before the loop
    nBlockXOff, nBlockYOff, nTileId, nBlocks, eErr, nRasterID,
    tempFile,     \* the in-memory encode file exists
    sqlLog,       \* transaction statements issued by the call
    msgs,         \* errors and warnings emitted by the call
    result,       \* "none" | "null" | "dataset"
    hist,         \* history of the call (what happened, the store before it)
    first,        \* the first ingestion committed into a fresh prefix
    gpc,          \* position of the data source: "constructed", in Open, "returned"
    openArgs,     \* the arguments of Open
    pszGPSBabelDriverName, pszFilename, nLayers, apoLayers,
    features,     \* bExplicitFeatures, bWaypoints, bTracks, bRoutes
    bRet,         \* the last spawn exited with 0
    spawned,      \* the converter processes spawned by Open, in order
    errors,       \* errors reported by Open
    openResult,   \* what Open returned
    ghist         \* history of Open: what happened to the input file

storeVars == <<env, dbExists, srsRows, schema, geomSRID, rasters, metadata, seq, txSnap>>
loopVars == <<nBlockXOff, nBlockYOff, nTileId, nBlocks, eErr, nRasterID, tempFile>>
rasterliteVars == <<env, dbExists, srsRows, schema, geomSRID, rasters, metadata, seq, txSnap,
                    pc, args, nBlockXOff, nBlockYOff, nTileId, nBlocks, eErr, nRasterID,
                    tempFile, sqlLog, msgs, result, hist, first>>
gpsVars == <<gpc, openArgs, pszGPSBabelDriverName, pszFilename, nLayers, apoLayers,
             features, bRet, spawned, errors, openResult, ghist>>
vars == <<rasterliteVars, gpsVars>>

\* The largest index GetLayer is asked for.
MaxLayerIndex == 6
\* What the callers of a data source hand in: every form of the names with a
\* request for the first layer, or every list of features with a request for
\* every index.
GpsEnv ==
    IF env = "layers"
    THEN [arguments |-> LayerArguments, indices |-> -1..MaxLayerIndex]
    ELSE [arguments |-> OpenArguments, indices |-> {0}]
\* No layer: nullptr.
NullLayer == ""
NoGHist == [parsed |-> FALSE, opened |-> "no", stat |-> "no", nonEmpty |-> {},
            asked |-> FALSE, iLayer |-> 0, got |-> NullLayer]
\* A data source as its constructor leaves it.
GpsConstructed ==
    /\ gpc = "constructed"
    /\ openArgs = NoArguments
    /\ pszGPSBabelDriverName = Null
    /\ pszFilename = FileNull
    /\ nLayers = 0
    /\ apoLayers = <<>>
    /\ features = AllFeatures
    /\ bRet = FALSE
    /\ spawned = <<>>
    /\ errors = {}
    /\ openResult = FALSE
    /\ ghist = NoGHist

Env ==
    CASE env = "seq" -> SeqEnv
      [] env = "tiling" -> TilingEnv
      [] env = "target" -> TargetEnv
      [] env = "options" -> OptionsEnv
      [] env = "codec" -> CodecEnv
      [] OTHER -> SchemaEnv

NoTx == [active |-> FALSE, rasters |-> <<>>, metadata |-> <<>>, seq |-> 0]
NoArgs == [pszFilename |-> Target(FALSE, <<>>), osDBName |-> <<>>,
           osTableName |-> <<>>,
           nXSize |-> 0, nYSize |-> 0, g |-> IdentityGT,
           nBlockXSize |-> 0, nBlockYSize |-> 0, bTiled |-> TRUE,
           nSRSId |-> NoSRID, bWipe |-> FALSE, hasProgress |-> FALSE,
           nXBlocks |-> 0, nYBlocks |-> 0, nTotalBlocks |-> 0,
           papszOptions |-> [DRIVER |-> NoValue, QUALITY |-> NoValue,
                             COMPRESS |-> NoValue, PHOTOMETRIC |-> NoValue],
           papszTileDriverOptions |-> {}]
NoHist == [preRasters |-> <<>>, preMetadata |-> <<>>, preSchema |-> "absent",
           preSRID |-> NoSRID, insRasters |-> {}, insMetadata |-> {},
           failStep |-> "none", cancelAt |-> 0, progressCalls |-> 0,
           stage |-> "none", overlap |-> 0, optWipe |-> FALSE,
           baseRasters |-> 0, baseMetadata |-> 0,
           nBands |-> 1, drv |-> "GTiff", gt |-> NoGT, optTiled |-> TRUE,
           optBX |-> NoOpt, optBY |-> NoOpt,
           preExists |-> FALSE, preSrs |-> {}, bExists |-> FALSE, warned |-> {},
           srs |-> NoSRS, schemaFail |-> "none", statsFailed |-> FALSE,
           unexpected |-> {}, steps |-> <<>>,
           calls |-> <<>>, nAllocs |-> 0, nFrees |-> 0]
NoFirst == [set |-> FALSE, key |-> <<>>, rows |-> <<>>, nRasters |-> 0]

InitWith(e) ==
    /\ env = e
    /\ dbExists = FALSE
    /\ srsRows = {}
    /\ schema = "absent"
    /\ geomSRID = NoSRID
    /\ rasters = <<>>
    /\ metadata = <<>>
    /\ seq = 0
    /\ txSnap = NoTx
    /\ pc = "idle"
    /\ args = NoArgs
    /\ nBlockXOff = 0 /\ nBlockYOff = 0 /\ nTileId = 0 /\ nBlocks = 0
    /\ eErr = "CE_None" /\ nRasterID = OGRNullFID
    /\ tempFile = FALSE
    /\ sqlLog = <<>>
    /\ msgs = {}
    /\ result = "none"
    /\ hist = NoHist
    /\ first = NoFirst
    /\ GpsConstructed

\* return nullptr before the loop: nothing else of the call remains.
Fail(m) ==
    /\ pc' = "done"
    /\ result' = "null"
    /\ msgs' = msgs \cup m

(* ------------------------------ actions -------------------------------- *)
\* Entry of RasterliteCreateCopy: band count, tile driver, geotransform and
\* block size.
Enter ==
    /\ pc = "idle"
    /\ seq < Env.maxSeq
    /\ \E nBands \in {0, 1}, papszOptions \in Env.options, nXSize \in Env.xs,
          nYSize \in Env.ys, gt \in Env.gts, bTiled \in BOOLEAN,
          bx \in Env.bxopts, by \in Env.byopts, prog \in BOOLEAN,
          target \in Env.targets :
       LET drv == DriverName(papszOptions.DRIVER) IN
         /\ hist' = [NoHist EXCEPT !.preRasters = rasters, !.preMetadata = metadata,
                                   !.preSchema = schema, !.preSRID = geomSRID,
                                   !.preExists = dbExists, !.preSrs = srsRows,
                                   !.nBands = nBands, !.drv = drv, !.gt = gt,
                                   !.optTiled = bTiled, !.optBX = bx, !.optBY = by,
                                   !.stage = "entered"]
         /\ sqlLog' = <<>>
         /\ nBlockXOff' = 0 /\ nBlockYOff' = 0 /\ nTileId' = 0 /\ nBlocks' = 0
         /\ eErr' = "CE_None" /\ nRasterID' = OGRNullFID /\ tempFile' = FALSE
         /\ IF nBands = 0
            THEN /\ pc' = "done" /\ result' = "null" /\ msgs' = {"nBands == 0"}
                 /\ args' = [NoArgs EXCEPT !.pszFilename = target]
            ELSE IF RefusedTileDriver(drv)
            THEN /\ pc' = "done" /\ result' = "null"
                 /\ msgs' = {"driver cannot be used as underlying driver"}
                 /\ args' = [NoArgs EXCEPT !.pszFilename = target]
            ELSE IF HasRotation(gt)
            THEN /\ pc' = "done" /\ result' = "null"
                 /\ msgs' = {"Cannot use geotransform with rotational terms"}
                 /\ args' = [NoArgs EXCEPT !.pszFilename = target]
            ELSE /\ pc' = "args" /\ result' = "none" /\ msgs' = {}
                 /\ args' = [NoArgs EXCEPT
                        !.pszFilename = target,
                        !.nXSize = nXSize, !.nYSize = nYSize,
                        !.g = EffGeoTransform(gt), !.bTiled = bTiled,
                        !.nBlockXSize = EffBlockSize(bTiled, bx, nXSize),
                        !.nBlockYSize = EffBlockSize(bTiled, by, nYSize),
                        !.hasProgress = prog,
                        !.papszOptions = papszOptions]
    /\ UNCHANGED <<storeVars, first>>
    /\ UNCHANGED gpsVars

\* The target string: the store path and the table name; without a table name
\* an existing store is refused. bOther: a file exists at a path that is not
\* StorePath. The model follows the store at StorePath and its tables of prefix
\* T: a call that resolves to another store or prefix ends here as "elsewhere".
ParseTarget ==
    /\ pc = "args"
    /\ \E bOther \in BOOLEAN :
         LET target == args.pszFilename
             osDBName == TargetDBName(target)
             name == TargetTableName(target)
             bExists == IF osDBName = StorePath THEN dbExists ELSE bOther
             osTableName == IF name = <<>> THEN Basename(osDBName) ELSE name
             warned == InvalidOptions(target.tokens)
             warnings == IF warned = {} THEN {} ELSE {"Invalid option"}
         IN /\ hist' = [hist EXCEPT !.bExists = bExists, !.warned = warned,
                                    !.stage = "parsed"]
            /\ IF name = <<>> /\ bExists
               THEN /\ Fail(warnings \cup {"Database already exists. Explicit table name must be specified"})
                    /\ args' = [args EXCEPT !.osDBName = osDBName]
               ELSE /\ args' = [args EXCEPT !.osDBName = osDBName,
                                           !.osTableName = osTableName]
                    /\ msgs' = msgs \cup warnings
                    /\ IF osDBName = StorePath /\ osTableName = <<"T">>
                       THEN pc' = "open" /\ UNCHANGED result
                       ELSE pc' = "done" /\ result' = "elsewhere"
    /\ UNCHANGED <<storeVars, loopVars, sqlLog, first>>
    /\ UNCHANGED gpsVars

\* GDALCreate with SPATIALITE=YES, or RasterliteOpenSQLiteDB.
OpenDB ==
    /\ pc = "open"
    /\ \E bOk \in BOOLEAN :
         IF ~bOk
         THEN /\ Fail({"Cannot load or create SQLite database"})
              /\ UNCHANGED <<dbExists, srsRows>>
         ELSE /\ pc' = "srid" /\ UNCHANGED <<result, msgs>>
              /\ dbExists' = TRUE
              /\ srsRows' = IF dbExists THEN srsRows ELSE InitialRegistry
    /\ hist' = [hist EXCEPT !.stage = "opened"]
    /\ UNCHANGED <<env, schema, geomSRID, rasters, metadata, seq, txSnap,
                   loopVars, args, sqlLog, first>>
    /\ UNCHANGED gpsVars

\* int nSRSId = RasterliteInsertSRID(hDS, poSrcDS->GetProjectionRef())
ResolveSRID ==
    /\ pc = "srid"
    /\ \E srs \in Env.srs, bNullOnEmpty \in BOOLEAN :
         LET r == InsertSRID(srsRows, srs, bNullOnEmpty)
         IN /\ srsRows' = r.rows
            /\ args' = [args EXCEPT !.nSRSId = r.srid]
            /\ hist' = [hist EXCEPT !.srs = srs, !.preSrs = srsRows,
                                    !.stage = "srid"]
    /\ pc' = "tables"
    /\ UNCHANGED <<env, dbExists, schema, geomSRID, rasters, metadata, seq, txSnap,
                   loopVars, sqlLog, msgs, result, first>>
    /\ UNCHANGED gpsVars

\* RasterliteCreateTables: create the two tables, or check the SRID of the
\* existing ones and wipe them.
CreateTables ==
    /\ pc = "tables"
    /\ \E optWipe \in BOOLEAN, bAddOk \in BOOLEAN, bIdxOk \in BOOLEAN,
          bStatsOk \in Env.statsOk, bQueryOk \in BOOLEAN :
         LET bWipe == WipeExistingData(optWipe)
             nSRSId == args.nSRSId
             bLayer == schema \in {"geomcol", "indexed"} \/ bQueryOk
             bConflict == bLayer /\ SRIDConflict(ExistingSRID(schema, geomSRID), nSRSId)
         IN /\ args' = [args EXCEPT !.bWipe = bWipe]
            /\ hist' = [hist EXCEPT
                   !.stage = "schema", !.optWipe = optWipe,
                   !.schemaFail = IF schema # "absent" THEN "none"
                                  ELSE IF ~bAddOk THEN "add"
                                  ELSE IF ~bIdxOk THEN "index" ELSE "none",
                   !.statsFailed = schema = "absent" /\ bAddOk /\ bIdxOk /\ ~bStatsOk]
            /\ IF schema = "absent"
               THEN /\ UNCHANGED <<rasters, metadata>>
                    /\ schema' = SchemaAfterCreate(bAddOk, bIdxOk)
                    /\ IF ~bAddOk
                       THEN /\ UNCHANGED geomSRID
                            /\ Fail({"Check that the OGR SQLite driver has Spatialite support"})
                       ELSE IF ~bIdxOk
                       THEN /\ geomSRID' = nSRSId
                            /\ Fail({})
                       ELSE /\ geomSRID' = nSRSId
                            /\ pc' = "overlap" /\ UNCHANGED <<result, msgs>>
               ELSE /\ UNCHANGED schema
                    /\ IF bConflict /\ ~bWipe
                       THEN /\ Fail({"New data has not the same SRS as existing data"})
                            /\ UNCHANGED <<geomSRID, rasters, metadata>>
                       ELSE /\ geomSRID' = IF bConflict /\ schema # "tables"
                                           THEN nSRSId ELSE geomSRID
                            /\ rasters' = IF bWipe THEN DeleteFromRasters(rasters)
                                          ELSE rasters
                            /\ metadata' = IF bWipe THEN DeleteFromMetadata(metadata)
                                           ELSE metadata
                            /\ pc' = "overlap" /\ UNCHANGED <<result, msgs>>
    /\ UNCHANGED <<env, dbExists, srsRows, seq, txSnap, loopVars, sqlLog, first>>
    /\ UNCHANGED gpsVars

\* The overlap query and its warning.
OverlapCheck ==
    /\ pc = "overlap"
    /\ \E bCountOk \in BOOLEAN :
         LET n == IF bCountOk
                  THEN OverlapCount(schema, metadata, args.g, args.nXSize,
                                    args.nYSize)
                  ELSE 0
         IN /\ hist' = [hist EXCEPT !.overlap = n, !.stage = "overlap"]
            /\ msgs' = msgs \cup OverlapWarning(n)
    /\ pc' = "begin"
    /\ UNCHANGED <<storeVars, loopVars, args, sqlLog, result, first>>
    /\ UNCHANGED gpsVars

\* The block counts, the pixel buffer, the tile driver options and BEGIN.
BeginTx ==
    /\ pc = "begin"
    /\ \E bAllocOk \in BOOLEAN :
         IF ~bAllocOk
         THEN /\ Fail({})
              /\ UNCHANGED <<args, txSnap, sqlLog, hist>>
         ELSE LET nXBlocks == NumBlocks(args.nXSize, args.nBlockXSize)
                  nYBlocks == NumBlocks(args.nYSize, args.nBlockYSize)
                  tdo == GetTileDriverOptions(args.papszOptions)
              IN /\ args' = [args EXCEPT !.nXBlocks = nXBlocks, !.nYBlocks = nYBlocks,
                                         !.nTotalBlocks = nXBlocks * nYBlocks,
                                         !.papszTileDriverOptions = tdo.list]
                 /\ sqlLog' = Append(sqlLog, "BEGIN")
                 /\ txSnap' = [active |-> TRUE, rasters |-> rasters,
                               metadata |-> metadata, seq |-> seq]
                 /\ hist' = [hist EXCEPT !.stage = "loop",
                                         !.baseRasters = Len(rasters),
                                         !.baseMetadata = Len(metadata),
                                         !.unexpected = tdo.warned,
                                         !.nAllocs = @ + 1]
                 /\ msgs' = IF tdo.warned = {} THEN msgs
                            ELSE msgs \cup {"Unexpected option for driver"}
                 /\ pc' = IF LoopContinues(eErr, 0, nYBlocks)
                             /\ LoopContinues(eErr, 0, nXBlocks)
                          THEN "read" ELSE "finish"
                 /\ UNCHANGED result
    /\ UNCHANGED <<env, dbExists, srsRows, schema, geomSRID, rasters, metadata, seq,
                   loopVars, first>>
    /\ UNCHANGED gpsVars

\* The window of the current block.
CurReqXSize == ReqSize(nBlockXOff, args.nBlockXSize, args.nXSize)
CurReqYSize == ReqSize(nBlockYOff, args.nBlockYSize, args.nYSize)

\* poSrcDS->RasterIO(GF_Read, ...) of the block's window.
ReadBlock ==
    /\ pc = "read"
    /\ \E e \in CPLErr :
         /\ eErr' = e
         /\ IF e # "CE_None"
            THEN /\ pc' = "finish"
                 /\ nBlockYOff' = nBlockYOff + 1
                 /\ hist' = [hist EXCEPT !.failStep = "read", !.steps = Append(@, <<"read", nBlockXOff, nBlockYOff>>)]
            ELSE /\ pc' = "encode"
                 /\ hist' = [hist EXCEPT !.steps = Append(@, <<"read", nBlockXOff, nBlockYOff>>)]
                 /\ UNCHANGED nBlockYOff
    /\ UNCHANGED <<storeVars, args, nBlockXOff, nTileId, nBlocks, nRasterID,
                   tempFile, sqlLog, msgs, result, first>>
    /\ UNCHANGED gpsVars

\* GDALCreateCopy of the in-memory tile into the temporary file.
EncodeTile ==
    /\ pc = "encode"
    /\ \E bOk \in BOOLEAN, bLeft \in BOOLEAN :
         IF bOk
         THEN /\ tempFile' = TRUE
              /\ pc' = "insraster"
              /\ hist' = [hist EXCEPT !.steps = Append(@, <<"encode", nBlockXOff, nBlockYOff>>)]
              /\ UNCHANGED <<eErr, nBlockYOff>>
         ELSE /\ tempFile' = bLeft
              /\ eErr' = "CE_Failure"
              /\ pc' = "finish"
              /\ nBlockYOff' = nBlockYOff + 1
              /\ hist' = [hist EXCEPT !.failStep = "encode", !.steps = Append(@, <<"encode", nBlockXOff, nBlockYOff>>)]
    /\ UNCHANGED <<storeVars, args, nBlockXOff, nTileId, nBlocks, nRasterID,
                   sqlLog, msgs, result, first>>
    /\ UNCHANGED gpsVars

\* OGR_L_CreateFeature(hRasterLayer, ...), OGR_F_GetFID and VSIUnlink.
InsertRaster ==
    /\ pc = "insraster"
    /\ tempFile' = VSIUnlink(tempFile)
    /\ \E bOk \in BOOLEAN :
         IF bOk
         THEN /\ rasters' = Append(rasters,
                     [id |-> seq + 1,
                      blob |-> <<nBlockXOff * args.nBlockXSize,
                                 nBlockYOff * args.nBlockYSize,
                                 CurReqXSize, CurReqYSize>>])
              /\ seq' = seq + 1
              /\ nRasterID' = seq + 1
              /\ hist' = [hist EXCEPT !.insRasters = @ \cup {seq + 1}, !.steps = Append(@, <<"raster", nBlockXOff, nBlockYOff>>)]
              /\ pc' = "insmeta"
              /\ UNCHANGED <<eErr, nBlockYOff>>
         ELSE /\ eErr' = "CE_Failure"
              /\ nRasterID' = OGRNullFID
              /\ hist' = [hist EXCEPT !.failStep = "raster", !.steps = Append(@, <<"raster", nBlockXOff, nBlockYOff>>)]
              /\ pc' = "finish"
              /\ nBlockYOff' = nBlockYOff + 1
              /\ UNCHANGED <<rasters, seq>>
    /\ UNCHANGED <<env, dbExists, srsRows, schema, geomSRID, metadata, txSnap, args,
                   nBlockXOff, nTileId, nBlocks, sqlLog, msgs, result, first>>
    /\ UNCHANGED gpsVars

\* OGR_L_CreateFeature(hMetadataLayer, ...) of the block's metadata row.
InsertMetadata ==
    /\ pc = "insmeta"
    /\ nTileId' = nTileId + 1
    /\ \E bOk \in BOOLEAN :
         IF bOk
         THEN /\ metadata' = Append(metadata,
                     MetadataRow(nRasterID, nTileId, CurReqXSize, CurReqYSize, args.g,
                         TileRect(args.g, args.nBlockXSize, args.nBlockYSize,
                                  nBlockXOff, nBlockYOff, CurReqXSize, CurReqYSize)))
              /\ hist' = [hist EXCEPT !.insMetadata = @ \cup {nRasterID}, !.steps = Append(@, <<"metadata", nBlockXOff, nBlockYOff>>)]
              /\ UNCHANGED eErr
         ELSE /\ eErr' = "CE_Failure"
              /\ hist' = [hist EXCEPT !.failStep = "meta", !.steps = Append(@, <<"metadata", nBlockXOff, nBlockYOff>>)]
              /\ UNCHANGED metadata
    /\ pc' = "progress"
    /\ UNCHANGED <<env, dbExists, srsRows, schema, geomSRID, rasters, seq, txSnap, args,
                   nBlockXOff, nBlockYOff, nBlocks, nRasterID, tempFile, sqlLog,
                   msgs, result, first>>
    /\ UNCHANGED gpsVars

\* nBlocks++, the progress callback, and the two for-loops' steps and tests.
ReportProgress ==
    /\ pc = "progress"
    /\ nBlocks' = nBlocks + 1
    /\ \E bContinue \in (IF args.hasProgress THEN BOOLEAN ELSE {TRUE}) :
         LET e == IF args.hasProgress THEN AfterProgress(eErr, bContinue) ELSE eErr
         IN /\ eErr' = e
            /\ hist' = [hist EXCEPT
                   !.progressCalls = IF args.hasProgress THEN @ + 1 ELSE @,
                   !.steps = IF args.hasProgress
                             THEN Append(@, <<"progress", nBlockXOff, nBlockYOff>>)
                             ELSE @,
                   !.calls = IF args.hasProgress
                             THEN Append(@, [nBlocks |-> nBlocks + 1,
                                             nTotalBlocks |-> args.nTotalBlocks,
                                             eErr |-> eErr])
                             ELSE @,
                   !.cancelAt = IF args.hasProgress /\ ~bContinue
                                THEN nBlocks + 1 ELSE @]
            /\ IF LoopContinues(e, nBlockXOff + 1, args.nXBlocks)
               THEN /\ nBlockXOff' = nBlockXOff + 1
                    /\ UNCHANGED nBlockYOff
                    /\ pc' = "read"
               ELSE IF LoopContinues(e, nBlockYOff + 1, args.nYBlocks)
               THEN /\ nBlockXOff' = 0
                    /\ nBlockYOff' = nBlockYOff + 1
                    /\ pc' = "read"
               ELSE /\ nBlockXOff' = nBlockXOff + 1
                    /\ nBlockYOff' = nBlockYOff + 1
                    /\ pc' = "finish"
    /\ UNCHANGED <<storeVars, args, nTileId, nRasterID, tempFile, sqlLog, msgs,
                   result, first>>
    /\ UNCHANGED gpsVars

\* After the loop: unlink the temporary file, COMMIT or ROLLBACK, close the
\* store and return.
Finish ==
    /\ pc = "finish"
    /\ tempFile' = VSIUnlink(tempFile)
    /\ hist' = [hist EXCEPT !.nFrees = @ + 1]
    /\ sqlLog' = Append(sqlLog, TxEnd(eErr))
    /\ IF TxEnd(eErr) = "COMMIT"
       THEN /\ UNCHANGED <<rasters, metadata, seq>>
            /\ first' = IF ~first.set /\ hist.preSchema = "absent"
                         THEN [set |-> TRUE,
                               key |-> <<args.nXSize, args.nYSize, args.g,
                                         args.nBlockXSize, args.nBlockYSize>>,
                               rows |-> [i \in 1..Len(metadata) |->
                                           [metadata[i] EXCEPT !.id = 0]],
                               nRasters |-> Len(rasters)]
                         ELSE first
       ELSE /\ rasters' = txSnap.rasters
            /\ metadata' = txSnap.metadata
            /\ seq' = txSnap.seq
            /\ UNCHANGED first
    /\ txSnap' = NoTx
    /\ result' = ReturnValue(eErr)
    /\ pc' = "done"
    /\ UNCHANGED <<env, dbExists, srsRows, schema, geomSRID, args, nBlockXOff,
                   nBlockYOff, nTileId, nBlocks, eErr, nRasterID, msgs>>
    /\ UNCHANGED gpsVars

\* The call has returned: its locals are gone and the store stays.
Return ==
    /\ pc = "done"
    /\ pc' = "idle"
    /\ args' = NoArgs
    /\ nBlockXOff' = 0 /\ nBlockYOff' = 0 /\ nTileId' = 0 /\ nBlocks' = 0
    /\ eErr' = "CE_None" /\ nRasterID' = OGRNullFID /\ tempFile' = FALSE
    /\ sqlLog' = <<>> /\ msgs' = {} /\ result' = "none" /\ hist' = NoHist
    /\ UNCHANGED <<storeVars, first>>
    /\ UNCHANGED gpsVars

Next ==
    \/ Enter
    \/ ParseTarget
    \/ OpenDB
    \/ ResolveSRID
    \/ CreateTables
    \/ OverlapCheck
    \/ BeginTx
    \/ ReadBlock
    \/ EncodeTile
    \/ InsertRaster
    \/ InsertMetadata
    \/ ReportProgress
    \/ Finish
    \/ Return

Init == InitWith("seq")
InitTiling == InitWith("tiling")
InitTarget == InitWith("target")
InitOptions == InitWith("options")
InitSchema == InitWith("schema")
InitCodec == InitWith("codec")
InitLayers == InitWith("layers")

\* Successive ingestions into one store.
Spec == Init /\ [][Next]_vars
\* One ingestion under every combination of the encoding options.
SpecCodec == InitCodec /\ [][Next]_vars
\* One ingestion of a raster of any of the sizes into an empty store.
SpecTiling == InitTiling /\ [][Next]_vars
\* Ingestions under every target string.
SpecTarget == InitTarget /\ [][Next]_vars
\* Ingestions under many block size options.
SpecOptions == InitOptions /\ [][Next]_vars
\* Ingestions under every projection.
SpecSchema == InitSchema /\ [][Next]_vars

(* ----------------- the GPSBabel data source: actions ------------------- *)
GpsReturn(bResult, err) ==
    /\ gpc' = "returned"
    /\ openResult' = bResult
    /\ errors' = errors \cup err

\* Open up to the choice of the temporary file: the names and the features.
GpsOpen ==
    /\ gpc = "constructed"
    /\ \E a \in GpsEnv.arguments :
         LET p == ParseOpen(a)
         IN /\ openArgs' = a
            /\ pszGPSBabelDriverName' = p.driver
            /\ pszFilename' = p.file
            /\ features' = p.features
            /\ IF p.err # ""
               THEN /\ GpsReturn(FALSE, {p.err})
                    /\ UNCHANGED ghist
               ELSE /\ gpc' = "spawn"
                    /\ ghist' = [ghist EXCEPT !.parsed = TRUE]
                    /\ UNCHANGED <<openResult, errors>>
    /\ UNCHANGED <<rasterliteVars, bRet, spawned, nLayers, apoLayers>>

\* The first spawn: of a special file by its name, of any other file, once
\* opened, through the standard input of the converter.
GpsSpawn ==
    /\ gpc = "spawn"
    /\ IF IsSpecialFile(pszFilename)
       THEN \E bOk \in BOOLEAN :
              /\ spawned' = Append(spawned,
                     [argv |-> GetArgv(features.bExplicit, features.bWaypoints,
                                       features.bRoutes, features.bTracks,
                                       pszGPSBabelDriverName, pszFilename),
                      piped |-> FALSE,
                      outcome |-> IF bOk THEN "ok" ELSE "other"])
              /\ bRet' = bOk
              /\ gpc' = "layers"
              /\ UNCHANGED <<ghist, openResult, errors>>
       ELSE \E bOpened \in BOOLEAN :
              IF ~bOpened
              THEN /\ GpsReturn(FALSE, {"Cannot open file"})
                   /\ ghist' = [ghist EXCEPT !.opened = "failed"]
                   /\ UNCHANGED <<spawned, bRet>>
              ELSE \E outcome \in {"ok", "piped", "other"} :
                     /\ ghist' = [ghist EXCEPT !.opened = "ok"]
                     /\ spawned' = Append(spawned,
                            [argv |-> GetArgv(features.bExplicit, features.bWaypoints,
                                              features.bRoutes, features.bTracks,
                                              pszGPSBabelDriverName, Stdin),
                             piped |-> TRUE,
                             outcome |-> outcome])
                     /\ bRet' = (outcome = "ok")
                     /\ gpc' = IF outcome # "ok" /\ RetryUnpiped(outcome)
                               THEN "retry" ELSE "layers"
                     /\ errors' = IF outcome # "ok" /\ ~RetryUnpiped(outcome)
                                  THEN errors \cup {"error of the piped spawn"}
                                  ELSE errors
                     /\ UNCHANGED openResult
    /\ UNCHANGED <<rasterliteVars, openArgs, pszGPSBabelDriverName, pszFilename,
                   features, nLayers, apoLayers>>

\* The second spawn, by the name of the file, if VSIStat finds the file.
GpsRetry ==
    /\ gpc = "retry"
    /\ \E bStat \in BOOLEAN :
         IF ~bStat
         THEN /\ GpsReturn(FALSE, {"Driver only supports real (non virtual) files"})
              /\ ghist' = [ghist EXCEPT !.stat = "failed"]
              /\ UNCHANGED <<spawned, bRet>>
         ELSE \E bOk \in BOOLEAN :
                /\ ghist' = [ghist EXCEPT !.stat = "ok"]
                /\ spawned' = Append(spawned,
                       [argv |-> GetArgv(features.bExplicit, features.bWaypoints,
                                         features.bRoutes, features.bTracks,
                                         pszGPSBabelDriverName, pszFilename),
                        piped |-> FALSE,
                        outcome |-> IF bOk THEN "ok" ELSE "other"])
                /\ bRet' = bOk
                /\ gpc' = "layers"
                /\ UNCHANGED <<openResult, errors>>
    /\ UNCHANGED <<rasterliteVars, openArgs, pszGPSBabelDriverName, pszFilename,
                   features, nLayers, apoLayers>>

\* The GPX output is opened and its layers are registered; Open returns.
GpsRegisterLayers ==
    /\ gpc = "layers"
    /\ \E bGpx \in BOOLEAN, nonEmpty \in SUBSET {LayerNames[i] : i \in 1..Len(LayerNames)} :
         LET layers == IF bRet /\ bGpx THEN RegisterLayers(features, nonEmpty)
                       ELSE <<>>
         IN /\ apoLayers' = layers
            /\ nLayers' = Len(layers)
            /\ ghist' = [ghist EXCEPT
                   !.nonEmpty = IF bRet /\ bGpx THEN nonEmpty ELSE {}]
            /\ GpsReturn(Len(layers) > 0, {})
    /\ UNCHANGED <<rasterliteVars, openArgs, pszGPSBabelDriverName, pszFilename,
                   features, bRet, spawned>>

\* GetLayer.
GetLayerFromOne(iLayer) ==
    IF iLayer <= 0 \/ iLayer >= nLayers THEN NullLayer ELSE apoLayers[iLayer + 1]
GetLayer(iLayer) ==
    IF iLayer < 0 \/ iLayer >= nLayers THEN NullLayer ELSE apoLayers[iLayer + 1]

\* A caller asks the opened data source for a layer.
GpsGetLayer ==
    /\ gpc = "returned"
    /\ \E iLayer \in GpsEnv.indices :
         ghist' = [ghist EXCEPT !.asked = TRUE, !.iLayer = iLayer,
                                !.got = GetLayer(iLayer)]
    /\ UNCHANGED <<rasterliteVars, gpc, openArgs, pszGPSBabelDriverName, pszFilename,
                   nLayers, apoLayers, features, bRet, spawned, errors, openResult>>

\* The data source is destroyed; the next one is constructed.
GpsDestroy ==
    /\ gpc = "returned"
    /\ gpc' = "constructed"
    /\ openArgs' = NoArguments
    /\ pszGPSBabelDriverName' = Null
    /\ pszFilename' = FileNull
    /\ nLayers' = 0
    /\ apoLayers' = <<>>
    /\ features' = AllFeatures
    /\ bRet' = FALSE
    /\ spawned' = <<>>
    /\ errors' = {}
    /\ openResult' = FALSE
    /\ ghist' = NoGHist
    /\ UNCHANGED rasterliteVars

NextGPSBabel ==
    \/ GpsOpen
    \/ GpsSpawn
    \/ GpsRetry
    \/ GpsRegisterLayers
    \/ GpsGetLayer
    \/ GpsDestroy

\* Data sources opened one after the other.
SpecGPSBabel == Init /\ [][NextGPSBabel]_vars
\* Data sources opened under every list of features and asked for their layers.
SpecLayers == InitLayers /\ [][NextGPSBabel]_vars

(* ----------------------------- properties ------------------------------ *)
Returned == pc = "done"
Began == hist.stage = "loop"
Committed == Len(sqlLog) = 2 /\ sqlLog[2] = "COMMIT"
RolledBack == Len(sqlLog) = 2 /\ sqlLog[2] = "ROLLBACK"
FailedInLoop == hist.failStep # "none" \/ hist.cancelAt > 0

IsPrefix(a, b) == Len(a) <= Len(b) /\ \A i \in 1..Len(a) : a[i] = b[i]
\* The rows the run added since BEGIN.
NewRasters == SubSeq(rasters, hist.baseRasters + 1, Len(rasters))
NewMetadata == SubSeq(metadata, hist.baseMetadata + 1, Len(metadata))
NoRunRowVisible ==
    /\ \A i \in 1..Len(rasters) : rasters[i].id \notin hist.insRasters
    /\ \A i \in 1..Len(metadata) : metadata[i].id \notin hist.insMetadata
CeilDiv(a, b) == IF a % b = 0 THEN a \div b ELSE (a \div b) + 1

\* C1: when a step of some block fails (the window read, the encode, the
\* raster-row insert or the metadata-row insert), no T_rasters row and no
\* T_metadata row inserted by this run is in the store once the call returned.
C1_FailureAtomicity ==
    (Returned /\ hist.failStep \in {"read", "encode", "raster", "meta"})
        => NoRunRowVisible

\* A run that failed in its second or a later block, after rows were inserted.
C1_Witness ==
    /\ Returned
    /\ hist.failStep = "encode"
    /\ hist.insMetadata # {}
    /\ Len(hist.preMetadata) > 0

\* C2: after BEGIN exactly one of COMMIT and ROLLBACK is issued before the
\* return; COMMIT if and only if every block was read, encoded and persisted
\* and no progress callback asked to stop; on COMMIT the reopened store is
\* returned and on ROLLBACK failure is returned.
C2_TerminalStates ==
    (Returned /\ Began) =>
        /\ Len(sqlLog) = 2 /\ sqlLog[1] = "BEGIN"
        /\ sqlLog[2] \in {"COMMIT", "ROLLBACK"}
        /\ (sqlLog[2] = "COMMIT") <=>
               (~FailedInLoop /\ nBlocks = args.nTotalBlocks)
        /\ (sqlLog[2] = "COMMIT") => result = "dataset"
        /\ (sqlLog[2] = "ROLLBACK") => result = "null"

\* The block column / row of the i-th row pair the run added.
ColOf(i) == (i - 1) % CeilDiv(args.nXSize, args.nBlockXSize)
RowOf(i) == (i - 1) \div CeilDiv(args.nXSize, args.nBlockXSize)
ExpectedTiles ==
    CeilDiv(args.nXSize, args.nBlockXSize) * CeilDiv(args.nYSize, args.nBlockYSize)

\* C3: a successful ingestion of a W x H raster with block size (blockW, blockH)
\* inserts exactly N = ceil(W/blockW) * ceil(H/blockH) metadata rows and N raster
\* rows; the tile_id values in insertion order are 0..N-1 and the block at
\* column bx, row by has tile_id = by * ceil(W/blockW) + bx.
C3_TileCountAndOrder ==
    (Returned /\ Committed) =>
        /\ Len(NewMetadata) = ExpectedTiles
        /\ Len(NewRasters) = ExpectedTiles
        /\ \A i \in 1..Len(NewMetadata) :
              /\ NewMetadata[i].tile_id = i - 1
              /\ NewMetadata[i].tile_id = RowOf(i) * CeilDiv(args.nXSize, args.nBlockXSize) + ColOf(i)
              /\ NewMetadata[i].id = NewRasters[i].id
              /\ NewRasters[i].blob[1] = ColOf(i) * args.nBlockXSize
              /\ NewRasters[i].blob[2] = RowOf(i) * args.nBlockYSize
              /\ NewMetadata[i].minx = args.g[0] + ColOf(i) * args.nBlockXSize * args.g[1]
              /\ NewMetadata[i].maxy = args.g[3] + RowOf(i) * args.nBlockYSize * args.g[5]

\* The largest raster with 256 x 256 blocks: 3 x 3 = 9 tiles.
C3_Witness ==
    /\ Returned /\ Committed
    /\ args.nXSize = MaxXSize /\ args.nYSize = MaxYSize
    /\ args.nBlockXSize = DefaultBlockSize /\ args.nBlockYSize = DefaultBlockSize
    /\ Len(metadata) = 9
    /\ metadata[9].tile_id = 8

\* The raster row a metadata row refers to.
RasterOf(m) == CHOOSE i \in 1..Len(rasters) : rasters[i].id = m.id
LastOr(nSize, nBlockSize) ==
    IF nSize % nBlockSize = 0 THEN nBlockSize ELSE nSize % nBlockSize

\* C4: every metadata row written has width <= blockW and height <= blockH;
\* width = blockW outside the last block column and height = blockH outside the
\* last block row; in the last column width = W mod blockW (blockW when that is
\* zero) and in the last row height = H mod blockH (blockH when that is zero).
C4_TileSizes ==
    \A i \in (IF Began THEN hist.baseMetadata + 1 ELSE Len(metadata) + 1)..Len(metadata) :
        LET m == metadata[i]
            blob == rasters[RasterOf(m)].blob
            bx == blob[1] \div args.nBlockXSize
            by == blob[2] \div args.nBlockYSize
        IN /\ m.width <= args.nBlockXSize
           /\ m.height <= args.nBlockYSize
           /\ m.width = IF bx < CeilDiv(args.nXSize, args.nBlockXSize) - 1
                        THEN args.nBlockXSize
                        ELSE LastOr(args.nXSize, args.nBlockXSize)
           /\ m.height = IF by < CeilDiv(args.nYSize, args.nBlockYSize) - 1
                         THEN args.nBlockYSize
                         ELSE LastOr(args.nYSize, args.nBlockYSize)

\* 600 x 600 with 256 x 256 blocks: the last tile is 88 x 88.
C4_Witness ==
    /\ Returned /\ Committed
    /\ args.nBlockXSize = DefaultBlockSize /\ args.nBlockYSize = DefaultBlockSize
    /\ Len(metadata) = 9
    /\ metadata[9].width = 88 /\ metadata[9].height = 88
    /\ metadata[1].width = DefaultBlockSize

RECURSIVE SumArea(_, _)
SumArea(rows, i) ==
    IF i > Len(rows) THEN 0
    ELSE (Hi(rows[i].minx, rows[i].maxx) - Lo(rows[i].minx, rows[i].maxx))
           * (Hi(rows[i].miny, rows[i].maxy) - Lo(rows[i].miny, rows[i].maxy))
         + SumArea(rows, i + 1)
InteriorsMeet(a, b) ==
    /\ Lo(a.minx, a.maxx) < Hi(b.minx, b.maxx)
    /\ Lo(b.minx, b.maxx) < Hi(a.minx, a.maxx)
    /\ Lo(a.miny, a.maxy) < Hi(b.miny, b.maxy)
    /\ Lo(b.miny, b.maxy) < Hi(a.miny, a.maxy)
Abs(x) == IF x < 0 THEN -x ELSE x

\* C5: for a non-rotated transform the rectangles of one successful ingestion
\* tile the raster's extent: block (bx, by) of size (w, h) gets
\* minx = x0 + bx*blockW*px, maxx = x0 + (bx*blockW + w)*px,
\* maxy = y0 + by*blockH*py, miny = y0 + (by*blockH + h)*py; adjacent blocks
\* share an edge coordinate, no two rectangles have overlapping interiors and
\* their union is the extent [x0, x0 + W*px] x [y0 + H*py, y0].
C5_RectanglesTileExtent ==
    (Returned /\ Committed) =>
        LET rows == NewMetadata
            g == args.g
            nxb == CeilDiv(args.nXSize, args.nBlockXSize)
            ex0 == g[0]
            ex1 == g[0] + args.nXSize * g[1]
            ey0 == g[3] + args.nYSize * g[5]
            ey1 == g[3]
        IN /\ \A i \in 1..Len(rows) :
                LET m == rows[i]
                    bx == ColOf(i)
                    by == RowOf(i)
                IN /\ m.minx = g[0] + bx * args.nBlockXSize * g[1]
                   /\ m.maxx = g[0] + (bx * args.nBlockXSize + m.width) * g[1]
                   /\ m.maxy = g[3] + by * args.nBlockYSize * g[5]
                   /\ m.miny = g[3] + (by * args.nBlockYSize + m.height) * g[5]
                   /\ (bx + 1 < nxb) => rows[i + 1].minx = m.maxx
                   /\ (i + nxb <= Len(rows)) => rows[i + nxb].maxy = m.miny
                   /\ Lo(ex0, ex1) <= Lo(m.minx, m.maxx)
                   /\ Hi(m.minx, m.maxx) <= Hi(ex0, ex1)
                   /\ Lo(ey0, ey1) <= Lo(m.miny, m.maxy)
                   /\ Hi(m.miny, m.maxy) <= Hi(ey0, ey1)
           /\ \A i \in 1..Len(rows) : \A j \in (i + 1)..Len(rows) :
                ~InteriorsMeet(rows[i], rows[j])
           /\ SumArea(rows, 1) = Abs(ex1 - ex0) * Abs(ey1 - ey0)

\* A committed ingestion of several block columns and rows under a scaled
\* transform.
C5_Witness ==
    /\ Returned /\ Committed
    /\ args.g[1] = 2 /\ args.g[5] = -3
    /\ args.nXBlocks >= 3 /\ args.nYBlocks >= 3
    /\ Len(metadata) = args.nXBlocks * args.nYBlocks

\* C6: when the progress callback asks to stop after block k (1 <= k <= N, the
\* last block included) the transaction is rolled back, failure is returned and
\* none of the k blocks' rows is visible afterwards, as for an encode failure;
\* the callback is consulted once per block, after the block's inserts, never
\* in the middle of a block.
C6_Cancellation ==
    /\ (Returned /\ hist.cancelAt > 0) =>
          /\ sqlLog = <<"BEGIN", "ROLLBACK">>
          /\ result = "null"
          /\ NoRunRowVisible
          /\ hist.cancelAt = nBlocks
    /\ hist.progressCalls = (IF args.hasProgress THEN nBlocks ELSE 0)
    /\ (pc \in {"read", "encode", "insraster", "insmeta"}) => nBlocks = nTileId
    /\ (pc = "progress") => nBlocks + 1 = nTileId

\* The callback stops the run after the last block, every tile being inserted.
C6_Witness ==
    /\ Returned
    /\ hist.cancelAt = args.nTotalBlocks
    /\ args.nTotalBlocks >= 2
    /\ Cardinality(hist.insMetadata) = args.nTotalBlocks
    /\ hist.failStep = "none"

\* C7 as stated: a run that fails in the tile loop leaves T_rasters and
\* T_metadata exactly as they were before the call, for every option setting,
\* WIPE=YES included.
C7_PreStateRestored ==
    (Returned /\ Began /\ FailedInLoop) =>
        /\ rasters = hist.preRasters
        /\ metadata = hist.preMetadata

\* C7 amended: a run that fails in the tile loop leaves T_rasters and T_metadata
\* as they were before the call when WIPE is not set, and empty when WIPE is set
\* (the wipe is executed before BEGIN and is not rolled back).
C7_PreStateRestoredUnlessWiped ==
    (Returned /\ Began /\ FailedInLoop) =>
        IF hist.optWipe
        THEN rasters = <<>> /\ metadata = <<>>
        ELSE rasters = hist.preRasters /\ metadata = hist.preMetadata

\* A run with WIPE set over a populated store that inserted rows and then
\* failed.
C7_Witness ==
    /\ Returned /\ Began /\ FailedInLoop
    /\ hist.optWipe
    /\ Len(hist.preMetadata) > 0
    /\ hist.insMetadata # {}

\* RasterliteCreateTables was called on existing, populated tables whose bound
\* SRID is not the resolved one, without WIPE.
SRSMismatchCase ==
    /\ hist.stage \in {"schema", "overlap", "loop"}
    /\ hist.preSchema \in {"geomcol", "indexed"}
    /\ Len(hist.preRasters) > 0 /\ Len(hist.preMetadata) > 0
    /\ hist.preSRID # args.nSRSId
    /\ ~hist.optWipe

Project(rows) == [i \in 1..Len(rows) |-> [rows[i] EXCEPT !.id = 0]]
RunKey == <<args.nXSize, args.nYSize, args.g, args.nBlockXSize, args.nBlockYSize>>

\* C9: ingesting A into T and then A again with WIPE=YES leaves T_rasters and
\* T_metadata with the row counts, tile_id sequence, widths, heights, pixel
\* sizes and rectangles (ids apart) of a single ingestion of A into a fresh
\* store.
C9_WipeIdempotent ==
    (Returned /\ Committed /\ hist.optWipe /\ hist.preSchema # "absent"
       /\ first.set /\ first.key = RunKey) =>
        /\ Project(metadata) = first.rows
        /\ Len(rasters) = first.nRasters
        /\ Len(metadata) = Len(rasters)

\* A was ingested into the fresh store, and has just been ingested again with
\* WIPE=YES over its own rows: the ids differ, the rest does not.
C9_Witness ==
    /\ Returned /\ Committed /\ hist.optWipe
    /\ first.set /\ first.key = RunKey
    /\ Project(hist.preMetadata) = first.rows
    /\ Len(metadata) = 2
    /\ metadata[1].id = 3

\* C10: a successful ingestion with WIPE not set into existing tables leaves
\* every previously stored row present and unchanged and adds exactly N new row
\* pairs; no run drops the tables, and rows are deleted only when WIPE is set.
C10_AppendLifecycle ==
    /\ (Returned /\ Committed /\ ~hist.optWipe /\ hist.preSchema # "absent") =>
          /\ IsPrefix(hist.preRasters, rasters)
          /\ IsPrefix(hist.preMetadata, metadata)
          /\ Len(rasters) = Len(hist.preRasters) + ExpectedTiles
          /\ Len(metadata) = Len(hist.preMetadata) + ExpectedTiles
          /\ \A i \in 1..ExpectedTiles :
                rasters[Len(hist.preRasters) + i].id
                    = metadata[Len(hist.preMetadata) + i].id
    /\ (hist.preSchema # "absent") => schema # "absent"
    /\ (pc # "idle" /\ ~hist.optWipe) =>
          /\ IsPrefix(hist.preRasters, rasters)
          /\ IsPrefix(hist.preMetadata, metadata)

\* Two tiles appended after the tile of an earlier ingestion.
C10_Witness ==
    /\ Returned /\ Committed /\ ~hist.optWipe
    /\ Len(hist.preMetadata) = 1
    /\ Len(metadata) = 3
    /\ hist.preSRID = args.nSRSId

(* ------------------- the schema stage and the inputs -------------------- *)
\* RasterliteCreateTables has just handed back a store handle.
SchemaJustReturned == hist.stage = "schema" /\ pc = "overlap"
\* RasterliteCreateTables handed back a store handle in this call.
SchemaReturnedHandle == SchemaJustReturned \/ hist.stage \in {"overlap", "loop"}
CountId(rows, id) == Cardinality({i \in 1..Len(rows) : rows[i].id = id})

NoTableToken(target) ==
    \A i \in 2..Len(target.tokens) : target.tokens[i][1] # "table="
ConfigurationError ==
    \/ hist.nBands = 0
    \/ hist.drv \in {"MEM", "VRT"}
    \/ (hist.gt.ok /\ (hist.gt.c[2] # 0 \/ hist.gt.c[4] # 0))
    \/ (hist.bExists /\ NoTableToken(args.pszFilename))
StoreUntouched ==
    /\ dbExists = hist.preExists /\ srsRows = hist.preSrs
    /\ schema = hist.preSchema /\ geomSRID = hist.preSRID
    /\ rasters = hist.preRasters /\ metadata = hist.preMetadata
    /\ ~txSnap.active

\* C12: a call on a source with zero bands, with DRIVER MEM or VRT, with a
\* non-zero rotation or shear term, or on an existing store file without a
\* table name returns failure without having created or opened the store,
\* executed an SQL statement or issued BEGIN / ROLLBACK.
C12_ConfigErrorsBeforeStore ==
    (pc # "idle" /\ ConfigurationError) =>
        /\ Returned
        /\ result = "null"
        /\ hist.stage \in {"entered", "parsed"}
        /\ sqlLog = <<>>
        /\ hist.insRasters = {} /\ hist.insMetadata = {}
        /\ StoreUntouched

\* A populated store was named without a table name: the call was refused.
C12_Witness ==
    /\ Returned
    /\ hist.bExists /\ NoTableToken(args.pszFilename)
    /\ hist.nBands = 1 /\ hist.drv = "GTiff"
    /\ Len(metadata) > 0
    /\ "Database already exists. Explicit table name must be specified" \in msgs

\* The target string of the call has been analysed, and had a token.
TargetParsed == hist.stage = "parsed" /\ Len(args.pszFilename.tokens) > 0
Tokens == args.pszFilename.tokens
TableTokens == {i \in 2..Len(Tokens) : Tokens[i][1] = "table="}
LastTableToken == CHOOSE i \in TableTokens : \A j \in TableTokens : j <= i
\* The base names of the paths the callers use.
ExpectedBasename(path) ==
    CASE path = StorePath -> <<"T">>
      [] path = DirStorePath -> <<"U">>
      [] OTHER -> path
ParseFailed == Returned /\ result = "null"

\* C13 as stated: the first token is the store path; the prefix is the value
\* of the last table= token if there is one; every other token is warned about
\* and changes nothing; without a table= token the prefix is the base name of
\* the store path when the store file does not exist and the call fails when it
\* exists.
C13_TargetResolution ==
    TargetParsed =>
        /\ args.osDBName = Tokens[1]
        /\ hist.warned = (2..Len(Tokens)) \ TableTokens
        /\ IF TableTokens # {}
           THEN /\ ~ParseFailed
                /\ args.osTableName = Tail(Tokens[LastTableToken])
           ELSE IF hist.bExists
           THEN ParseFailed
           ELSE /\ ~ParseFailed
                /\ args.osTableName = ExpectedBasename(Tokens[1])

\* The last table= token carries a name.
TableNamed == TableTokens # {} /\ Len(Tokens[LastTableToken]) > 1

\* C13 amended: the first token is the store path; the prefix is the value of
\* the last table= token if there is one and its value is not empty; every
\* other token is warned about and changes nothing; without a table= token, or
\* when the last one has an empty value, the prefix is the base name of the
\* store path when the store file does not exist and the call fails when it
\* exists.
C13_TargetResolutionNonEmptyName ==
    TargetParsed =>
        /\ args.osDBName = Tokens[1]
        /\ hist.warned = (2..Len(Tokens)) \ TableTokens
        /\ IF TableNamed
           THEN /\ ~ParseFailed
                /\ args.osTableName = Tail(Tokens[LastTableToken])
           ELSE IF hist.bExists
           THEN ParseFailed
           ELSE /\ ~ParseFailed
                /\ args.osTableName = ExpectedBasename(Tokens[1])

\* "RASTERLITE:T.sqlite,table=U,table=T" resolved to the store T.sqlite and the
\* prefix T.
C13_Witness ==
    /\ TargetParsed
    /\ args.pszFilename = Target(TRUE, <<StorePath, TableU, TableT>>)
    /\ args.osDBName = StorePath
    /\ args.osTableName = <<"T">>
    /\ pc = "open"

\* C14: when the tables do not exist and adding the geometry column or creating
\* the spatial index fails, the call returns failure before BEGIN with no tile
\* row inserted and the tables created so far stay in place, empty; a failing
\* refresh of the layer statistics does not make the call fail.
C14_SchemaFailureAsymmetry ==
    /\ (hist.schemaFail \in {"add", "index"}) =>
          /\ Returned /\ hist.stage = "schema"
          /\ result = "null"
          /\ sqlLog = <<>>
          /\ hist.insRasters = {} /\ hist.insMetadata = {}
          /\ schema = (IF hist.schemaFail = "add" THEN "tables" ELSE "geomcol")
          /\ rasters = <<>> /\ metadata = <<>>
    /\ (hist.statsFailed /\ hist.stage = "schema") =>
          /\ pc = "overlap" /\ result = "none"
          /\ schema = "indexed"

\* CreateSpatialIndex failed in a new store: the two tables and the geometry
\* column are left behind.
C14_Witness ==
    /\ Returned
    /\ hist.preSchema = "absent"
    /\ hist.schemaFail = "index"
    /\ schema = "geomcol"
    /\ result = "null"

\* C15: when RasterliteCreateTables is called with wipeExisting set on a store
\* where both tables exist and hands back a store handle, T_rasters and
\* T_metadata hold no row at that moment, the existing SRID matching or not.
C15_WipeEmptiesTables ==
    (SchemaJustReturned /\ hist.optWipe /\ hist.preSchema # "absent") =>
        /\ rasters = <<>>
        /\ metadata = <<>>

\* Populated tables bound to another SRID have just been wiped.
C15_Witness ==
    /\ SchemaJustReturned /\ hist.optWipe
    /\ Len(hist.preRasters) > 0 /\ Len(hist.preMetadata) > 0
    /\ hist.preSchema = "indexed"
    /\ hist.preSRID # args.nSRSId
    /\ rasters = <<>> /\ metadata = <<>>

\* C16: whenever RasterliteCreateTables hands back a store handle the SRID bound
\* to T_metadata's geometry column is the srid argument, so no tile row is
\* inserted under a geometry column bound to another SRID.
C16_SRIDConsistency ==
    SchemaReturnedHandle =>
        /\ schema \in {"geomcol", "indexed"}
        /\ geomSRID = args.nSRSId

\* The projection of the call names an authority and a non-zero code.
RegistrarRan == hist.stage = "srid"
AuthorityKnown ==
    hist.srs.wkt = "valid" /\ hist.srs.name # "" /\ hist.srs.code # 0
RegisteredRows == {r \in hist.preSrs : r.auth_srid = hist.srs.code}

\* C17: for a projection with an authority name and a non-zero code c,
\* RasterliteInsertSRID returns the srid of the registry row with auth_srid = c
\* when there is one, and otherwise inserts a row with srid = c and returns c;
\* it never returns -1.
C17_RegistrarResult ==
    (RegistrarRan /\ AuthorityKnown) =>
        /\ args.nSRSId # NoSRID
        /\ IF RegisteredRows # {}
           THEN /\ \E r \in RegisteredRows : args.nSRSId = r.srid
                /\ srsRows = hist.preSrs
           ELSE /\ args.nSRSId = hist.srs.code
                /\ srsRows = hist.preSrs \cup
                       {[srid |-> hist.srs.code, auth_srid |-> hist.srs.code]}

IsNumber(opt) ==
    opt.set /\ (\/ (Len(opt.text) = 1 /\ opt.text[1].k = "digits")
                \/ (Len(opt.text) = 2 /\ opt.text[1].k = "minus"
                      /\ opt.text[2].k = "digits"))
NumberOf(opt) == IF Len(opt.text) = 1 THEN opt.text[1].n ELSE -opt.text[2].n
IsHuge(opt) == opt.set /\ Len(opt.text) = 1 /\ opt.text[1].k = "huge"
MinOf(a, b) == IF a < b THEN a ELSE b
MaxOf(a, b) == IF a < b THEN b ELSE a
TiledCall == pc # "idle" /\ args.nXSize > 0 /\ hist.optTiled
InRange(n) == MinBlockSize <= n /\ n <= MaxBlockSize

\* C19 as stated: with tiling enabled the block width is
\* min(max(BLOCKXSIZE, 64), 4096) and the block height
\* min(max(BLOCKYSIZE, 64), 4096), 256 when the option is absent, so that both
\* are in 64..4096 for every option value; a run of digits above every int
\* denotes a number above 4096.
C19_BlockSizeClamp ==
    TiledCall =>
        /\ InRange(args.nBlockXSize) /\ InRange(args.nBlockYSize)
        /\ ~hist.optBX.set => args.nBlockXSize = DefaultBlockSize
        /\ ~hist.optBY.set => args.nBlockYSize = DefaultBlockSize
        /\ IsNumber(hist.optBX) =>
              args.nBlockXSize = MinOf(MaxOf(NumberOf(hist.optBX), MinBlockSize), MaxBlockSize)
        /\ IsNumber(hist.optBY) =>
              args.nBlockYSize = MinOf(MaxOf(NumberOf(hist.optBY), MinBlockSize), MaxBlockSize)
        /\ IsHuge(hist.optBX) => args.nBlockXSize = MaxBlockSize
        /\ IsHuge(hist.optBY) => args.nBlockYSize = MaxBlockSize

\* C19 amended: with tiling enabled the block width is
\* min(max(BLOCKXSIZE, 64), 4096) and the block height
\* min(max(BLOCKYSIZE, 64), 4096) for every option value an int holds, 256 when
\* the option is absent, and both are in 64..4096 for every option text.
C19_BlockSizeClampOfInts ==
    TiledCall =>
        /\ InRange(args.nBlockXSize) /\ InRange(args.nBlockYSize)
        /\ ~hist.optBX.set => args.nBlockXSize = DefaultBlockSize
        /\ ~hist.optBY.set => args.nBlockYSize = DefaultBlockSize
        /\ IsNumber(hist.optBX) =>
              args.nBlockXSize = MinOf(MaxOf(NumberOf(hist.optBX), MinBlockSize), MaxBlockSize)
        /\ IsNumber(hist.optBY) =>
              args.nBlockYSize = MinOf(MaxOf(NumberOf(hist.optBY), MinBlockSize), MaxBlockSize)

\* BLOCKXSIZE=4097 and BLOCKYSIZE=-5 on a 65 x 1 raster: blocks of 4096 x 64.
C19_Witness ==
    /\ Returned /\ Committed
    /\ hist.optTiled
    /\ hist.optBX = OptNum(4097) /\ hist.optBY = OptNum(-5)
    /\ args.nXSize = 65
    /\ args.nBlockXSize = MaxBlockSize /\ args.nBlockYSize = MinBlockSize

\* C20: a successful ingestion with TILED=NO of a W x H raster adds exactly one
\* T_rasters row and one T_metadata row, with tile_id 0, width W and height H,
\* whatever BLOCKXSIZE and BLOCKYSIZE are: the block is the raster, unclamped.
C20_UntiledSingleTile ==
    (Returned /\ Committed /\ ~hist.optTiled) =>
        /\ Len(NewRasters) = 1 /\ Len(NewMetadata) = 1
        /\ NewMetadata[1].id = NewRasters[1].id
        /\ NewMetadata[1].tile_id = 0
        /\ NewMetadata[1].width = args.nXSize
        /\ NewMetadata[1].height = args.nYSize
        /\ NewRasters[1].blob = <<0, 0, args.nXSize, args.nYSize>>
        /\ args.nBlockXSize = args.nXSize /\ args.nBlockYSize = args.nYSize

\* The largest raster, TILED=NO, BLOCKXSIZE=5000 and BLOCKYSIZE=0: one tile of
\* the raster's size.
C20_Witness ==
    /\ Returned /\ Committed /\ ~hist.optTiled
    /\ hist.optBX = OptNum(5000) /\ hist.optBY = OptNum(0)
    /\ args.nXSize = MaxXSize /\ args.nYSize = MaxYSize
    /\ Len(metadata) = 1
    /\ metadata[1].width = MaxXSize /\ metadata[1].height = MaxYSize

(* ------------------- the tile driver options (C21) ---------------------- *)
\* The values an encoding option takes in the calls explored.
OptionValues == {"75", "", "LZW", "YCBCR"}
\* The call has built the option list of the tile driver.
OptionsTranslated == hist.stage = "loop"
\* name = v is in the option list of the tile driver.
Forwarded(name, v) == <<name, v>> \in args.papszTileDriverOptions
\* Option name of the call reached the tile driver under some key.
Kept(name) ==
    \E p \in args.papszTileDriverOptions :
        /\ p[2] = args.papszOptions[name].value
        /\ p[1] = name \/ (name = "QUALITY" /\ p[1] = "JPEG_QUALITY")

C22_OverlapAdvisory ==
    /\ [][pc = "overlap" =>
            /\ pc' = "begin"
            /\ UNCHANGED <<storeVars, loopVars, args, sqlLog, result, first>>
            /\ "Raster tiles already exist" \notin msgs
            /\ msgs' \ {"Raster tiles already exist"} = msgs
            /\ ("Raster tiles already exist" \in msgs') <=> (hist'.overlap # 0)
            /\ hist' = [hist EXCEPT !.overlap = hist'.overlap, !.stage = "overlap"]]_vars
    /\ [](hist.stage \in {"overlap", "loop"} =>
            (("Raster tiles already exist" \in msgs) <=> (hist.overlap # 0)))
    /\ []((Returned /\ Committed) =>
            /\ Len(NewMetadata) = args.nTotalBlocks
            /\ Len(NewRasters) = args.nTotalBlocks)
C22_Witness ==
    /\ Returned /\ Committed
    /\ hist.overlap > 0
    /\ "Raster tiles already exist" \in msgs
    /\ Len(NewMetadata) = 2
    /\ result = "dataset"

(* ------------------- the stored pixel sizes (C23) ----------------------- *)
\* C23: every T_metadata row written has pixel_x_size > 0 and pixel_y_size > 0,
\* pixel_y_size being the absolute value of the transform's vertical pixel size,
\* for every accepted transform and for the substituted identity transform.
C23_PixelSizesPositive ==
    Began =>
        \A i \in 1..Len(NewMetadata) :
            /\ NewMetadata[i].pixel_x_size > 0
            /\ NewMetadata[i].pixel_y_size > 0
            /\ NewMetadata[i].pixel_x_size = args.g[1]
            /\ NewMetadata[i].pixel_y_size = Abs(args.g[5])

(* -------------------- the order of the steps (C24) ---------------------- *)
StepNames == <<"read", "encode", "raster", "metadata", "progress">>
\* The steps of one block: the progress step exists when a callback is given.
StepsPerBlock == IF args.hasProgress THEN 5 ELSE 4
\* The i-th step of a run in which nothing fails: blocks left to right, block
\* rows top to bottom.
CanonicalStep(i) ==
    LET b == (i - 1) \div StepsPerBlock
    IN <<StepNames[((i - 1) % StepsPerBlock) + 1], b % args.nXBlocks,
         b \div args.nXBlocks>>
\* A step of a block is taken.
StepTaken == Len(hist'.steps) = Len(hist.steps) + 1
BlockOf(step) == <<step[2], step[3]>>

\* C24: the history of steps only grows, one step at a time, and each new step
\* is the one of its position in the canonical sequence, so the steps of a run
\* are a prefix of read, encode, insert raster row, insert metadata row, report
\* progress of block (0,0), then of the block to its right, and so on row by
\* row; a step is taken only between BEGIN and COMMIT / ROLLBACK; after a failed
\* read, encode or raster insert no step follows, after a failed metadata insert
\* at most the progress report of the same block, and a step of a next block is
\* taken only when every step of the block before it succeeded and its callback
\* returned continue.
C24_StepOrder ==
    /\ [](Began /\ hist.steps # <<>> =>
            hist.steps[Len(hist.steps)] = CanonicalStep(Len(hist.steps)))
    /\ [](Began /\ Len(sqlLog) = 0 => hist.steps = <<>>)
    /\ [][hist'.steps # hist.steps => (StepTaken \/ hist'.steps = <<>>)]_vars
    /\ [][StepTaken =>
            /\ hist'.steps = Append(hist.steps, hist'.steps[Len(hist'.steps)])
            /\ sqlLog = <<"BEGIN">> /\ sqlLog' = sqlLog
            /\ hist.cancelAt = 0
            /\ hist.failStep \in {"none", "meta"}
            /\ hist.failStep = "meta" =>
                   /\ hist'.steps[Len(hist'.steps)][1] = "progress"
                   /\ BlockOf(hist'.steps[Len(hist'.steps)])
                          = BlockOf(hist.steps[Len(hist.steps)])
            /\ hist'.steps[Len(hist'.steps)][1] = "read" =>
                   /\ eErr = "CE_None"
                   /\ Len(hist.steps) % StepsPerBlock = 0]_vars
    /\ [][Len(sqlLog) = 1 /\ Len(sqlLog') = 2 =>
            /\ hist'.steps = hist.steps
            /\ sqlLog'[2] \in {"COMMIT", "ROLLBACK"}]_vars
    /\ [](Len(sqlLog) = 2 /\ hist.steps # <<>> /\ Committed =>
            Len(hist.steps) = StepsPerBlock * args.nTotalBlocks)
C24_Witness ==
    /\ Returned /\ Committed
    /\ args.hasProgress
    /\ args.nXBlocks = 3 /\ args.nYBlocks = 3
    /\ Len(hist.steps) = 45
    /\ hist.steps[15] = <<"progress", 2, 0>>
    /\ hist.steps[16] = <<"read", 0, 1>>

(* -------------------- the progress reports (C25) ------------------------ *)
\* C25: with a progress callback, the k-th invocation reports k / N, with
\* 0 < k <= N, and follows a block both rows of which were inserted; outside the
\* report itself there are as many invocations as persisted blocks, so no
\* invocation belongs to a block whose read, encode or insert failed and the
\* fraction 1 is reported only when all N blocks were persisted.
C25_ProgressReports ==
    (Began /\ args.hasProgress) =>
        /\ \A k \in 1..Len(hist.calls) :
              /\ hist.calls[k].nBlocks = k
              /\ hist.calls[k].nTotalBlocks = args.nTotalBlocks
              /\ 0 < k /\ k <= args.nTotalBlocks
              /\ hist.calls[k].eErr = "CE_None"
        /\ pc # "progress" => Len(hist.calls) = Cardinality(hist.insMetadata)

(* -------------------- the temporary file (C26) -------------------------- *)
\* C26: the temporary file of a block exists only between its encode and its
\* raster insert or the end of the loop: it does not exist when a block's encode
\* starts and not when RasterliteCreateCopy has returned, whatever step failed.
C26_TempFileLifetime ==
    /\ pc = "encode" => ~tempFile
    /\ Returned => ~tempFile
    /\ tempFile => pc \in {"insraster", "finish"}
C26_Witness ==
    /\ pc = "encode"
    /\ nBlockXOff = 1
    /\ ~tempFile
    /\ Len(hist.steps) >= 5
    /\ hist.steps[2] = <<"encode", 0, 0>>

(* ------------------- the value returned (C27) --------------------------- *)
\* C27: RasterliteCreateCopy returns a store handle only if COMMIT was issued in
\* the call: with whatever status other than CE_None the tile loop ends, the
\* call rolls back and returns the null handle.
C27_HandleOnlyAfterCommit ==
    Returned =>
        /\ result = "dataset" => Committed
        /\ (Began /\ eErr # "CE_None") => (RolledBack /\ result = "null")

(* ----------------- the windows and the buffer (C28) --------------------- *)
InBlock == pc \in {"read", "encode", "insraster", "insmeta", "progress"}
\* C28: the window of every block visited has 1 <= reqW <= blockW and
\* 1 <= reqH <= blockH and lies inside the source raster, so it fits the pixel
\* buffer of blockW * blockH pixels; the buffer is allocated once before BEGIN
\* and freed once after COMMIT or ROLLBACK.
C28_WindowAndBuffer ==
    /\ InBlock =>
          /\ 1 <= CurReqXSize /\ CurReqXSize <= args.nBlockXSize
          /\ 1 <= CurReqYSize /\ CurReqYSize <= args.nBlockYSize
          /\ nBlockXOff * args.nBlockXSize + CurReqXSize <= args.nXSize
          /\ nBlockYOff * args.nBlockYSize + CurReqYSize <= args.nYSize
          /\ CurReqXSize * CurReqYSize <= args.nBlockXSize * args.nBlockYSize
          /\ hist.nAllocs = 1 /\ hist.nFrees = 0
    /\ hist.nAllocs = (IF Began THEN 1 ELSE 0)
    /\ hist.nFrees = (IF Len(sqlLog) = 2 THEN 1 ELSE 0)
C28_Witness ==
    /\ Returned /\ RolledBack
    /\ hist.nAllocs = 1 /\ hist.nFrees = 1
    /\ args.nXSize = MaxXSize /\ args.nBlockXSize = DefaultBlockSize
    /\ Len(hist.steps) > 10
    /\ hist.steps[Len(hist.steps)][2] = 2

(* ------------------ the GPSBabel data source (C29, C30) ----------------- *)
OpenReturned == gpc = "returned"
\* Open got as far as the spawn of the converter.
NamesParsed == ghist.parsed
\* /dev/..., usb:..., COMn with n > 0.
SpecialName(f) ==
    \/ f.head \in {"/dev/", "usb:"}
    \/ (f.head = "COM" /\ Len(f.rest) > 0 /\ f.rest[1].k = "digits" /\ f.rest[1].n > 0)
SpawnedWith(i, bPiped, input) ==
    /\ Len(spawned) >= i
    /\ spawned[i].piped = bPiped
    /\ spawned[i].argv.input = input
\* A special file is never opened and spawned once by its name; at most two
\* spawns happen, the second by the name of the file.
SpecialAndCount ==
    /\ Len(spawned) <= 2
    /\ (NamesParsed /\ SpecialName(pszFilename)) =>
          /\ ghist.opened = "no"
          /\ Len(spawned) <= 1
          /\ OpenReturned => SpawnedWith(1, FALSE, pszFilename)
    /\ Len(spawned) = 2 => SpawnedWith(2, FALSE, pszFilename)

\* C29 as stated: for a file that is not special, Open first spawns the
\* converter with the file on its standard input; a second spawn by the file
\* name happens only if the first failed with the piped-commands message and the
\* file is a real file, and on every other failure the error of the first spawn
\* is reported again without retry; a special file is spawned once, unpiped and
\* unopened; at most two spawns per Open.
C29_FallbackStrategy ==
    /\ SpecialAndCount
    /\ (OpenReturned /\ NamesParsed /\ ~SpecialName(pszFilename)) =>
          /\ SpawnedWith(1, TRUE, Stdin)
          /\ Len(spawned) = 2
                => (spawned[1].outcome = "piped" /\ ghist.stat = "ok")
          /\ (spawned[1].outcome # "ok" /\ Len(spawned) = 1)
                => "error of the piped spawn" \in errors

\* C29 amended: a file that is not special is opened first, and Open fails
\* without a spawn if that fails; else the first spawn has the file on its
\* standard input; a second spawn by the file name happens exactly when the
\* first failed with the piped-commands message and the file is a real file;
\* with that message and no real file Open fails with its own error, without
\* retry; on every other failure the error of the first spawn is reported again
\* without retry; a special file is spawned once, unpiped and unopened; at most
\* two spawns per Open.
C29_FallbackStrategyOpened ==
    /\ SpecialAndCount
    /\ (OpenReturned /\ NamesParsed /\ ~SpecialName(pszFilename)) =>
          /\ ghist.opened # "no"
          /\ ghist.opened = "failed" =>
                /\ spawned = <<>> /\ ~openResult
                /\ "Cannot open file" \in errors
          /\ ghist.opened = "ok" =>
                /\ SpawnedWith(1, TRUE, Stdin)
                /\ Len(spawned) = 2
                      <=> (spawned[1].outcome = "piped" /\ ghist.stat = "ok")
                /\ (spawned[1].outcome = "piped" /\ ghist.stat # "ok") =>
                      /\ ghist.stat = "failed" /\ ~openResult
                      /\ "Driver only supports real (non virtual) files" \in errors
                      /\ "error of the piped spawn" \notin errors
                /\ spawned[1].outcome = "other"
                      <=> "error of the piped spawn" \in errors
                /\ spawned[1].outcome = "ok" => ghist.stat = "no"
C29_Witness ==
    /\ OpenReturned /\ openResult
    /\ pszFilename = PlainFile
    /\ Len(spawned) = 2
    /\ spawned[1].piped /\ spawned[1].outcome = "piped"
    /\ ~spawned[2].piped /\ spawned[2].outcome = "ok"
    /\ nLayers = 5

\* The driver name the caller of Open designated: the driver-name argument for
\* a plain file name, else the GPSBABEL_DRIVER open option, else the driver_name
\* part of the data source name.
Designated ==
    IF ~openArgs.pszDatasourceName.prefix THEN openArgs.pszGPSBabelDriverNameIn
    ELSE IF ~openArgs.papszOpenOptionsIn.GPSBABEL_DRIVER.null
    THEN openArgs.papszOpenOptionsIn.GPSBABEL_DRIVER
    ELSE IF Len(openArgs.pszDatasourceName.segs) > 0
    THEN Str(openArgs.pszDatasourceName.segs[1].name)
    ELSE Null
\* A-Z, a-z, 0-9, '_', '=', '.', ','.
AllowedChars == (65..90) \cup (97..122) \cup (48..57) \cup {95, 61, 46, 44}
AllowedName(s) == \A i \in 1..Len(s) : s[i] \in AllowedChars

\* C30: the driver name of every spawn is the driver name the caller designated
\* and consists of the characters A-Z, a-z, 0-9, '_', '=', '.', ',' only; when
\* the designated name has another character Open fails without a spawn.
C30_DriverNameGuard ==
    /\ \A i \in 1..Len(spawned) :
          /\ spawned[i].argv.driver = Designated
          /\ AllowedName(spawned[i].argv.driver.s)
    /\ (OpenReturned /\ ~AllowedName(Designated.s)) =>
          (spawned = <<>> /\ ~openResult)

(* --------------------- the layer table (C31) ---------------------------- *)
\* The feature kind of a layer is enabled.
KindEnabled(name) ==
    \/ (name = "waypoints" /\ features.bWaypoints)
    \/ (name \in {"routes", "route_points"} /\ features.bRoutes)
    \/ (name \in {"tracks", "track_points"} /\ features.bTracks)
\* waypoints; routes, route_points; tracks, track_points.
LayerRank(name) ==
    CASE name = "waypoints" -> 1
      [] name = "routes" -> 2
      [] name = "route_points" -> 3
      [] name = "tracks" -> 4
      [] OTHER -> 5

\* C31: 0 <= nLayers <= 5 at all times; once Open has returned every registered
\* layer is not empty and of an enabled kind, the layers stand in the order
\* waypoints, routes, route_points, tracks, track_points, and Open has reported
\* success if and only if nLayers >= 1; GetLayer(i) gives the i-th registered
\* layer when 0 <= i < nLayers and nullptr otherwise.
C31_LayerTable ==
    /\ 0 <= nLayers /\ nLayers <= 5
    /\ nLayers = Len(apoLayers)
    /\ OpenReturned =>
          /\ \A i \in 1..Len(apoLayers) :
                /\ apoLayers[i] \in ghist.nonEmpty
                /\ KindEnabled(apoLayers[i])
                /\ apoLayers[i] # NullLayer
          /\ \A i, j \in 1..Len(apoLayers) :
                i < j => LayerRank(apoLayers[i]) < LayerRank(apoLayers[j])
          /\ openResult <=> nLayers >= 1
    /\ ~OpenReturned => ~ghist.asked
    /\ ghist.asked =>
          IF 0 <= ghist.iLayer /\ ghist.iLayer < nLayers
          THEN ghist.got = apoLayers[ghist.iLayer + 1]
          ELSE ghist.got = NullLayer
C31_Witness ==
    /\ OpenReturned /\ openResult
    /\ features.bExplicit /\ ~features.bRoutes
    /\ ghist.nonEmpty = {"waypoints", "routes", "tracks", "track_points"}
    /\ apoLayers = <<"waypoints", "tracks", "track_points">>
    /\ ghist.asked /\ ghist.iLayer = 2 /\ ghist.got = "track_points"

====
